---- MODULE Spec2Model ----
(***************************************************************************)
(* A model of the filter-string parser, the AND/OR query-tree builder and  *)
(* the request loops of cdapython (fetch_rows, summary_counts,             *)
(* column_values, columns).                                                *)
(*                                                                         *)
(* Python strings that the code takes apart with regular expressions are   *)
(* sequences of one-character strings; the regular expressions are         *)
(* modelled by what they match, including the fact that `.` stops at a     *)
(* newline and that `$` also matches just before a final newline.          *)
(***************************************************************************)
EXTENDS Integers, Sequences, FiniteSets, TLC

(***************************************************************************)
(* Characters and string helpers.                                          *)
(***************************************************************************)

\* \s of the regular expressions, over the model's alphabet.
SpaceChars == {" ", "\n"}

NewlineChars == {"\n"}

QuoteChars == {"'", "\""}

StarChars == {"*"}

DigitChars == {"0", "1", "2", "3", "4", "5", "6", "7", "8", "9"}

SignChars == {"-", "+"}

\* str.lower() on one character.
LowerChar(c) ==
    CASE c = "A" -> "a" [] c = "B" -> "b" [] c = "C" -> "c" [] c = "D" -> "d"
      [] c = "E" -> "e" [] c = "F" -> "f" [] c = "G" -> "g" [] c = "H" -> "h"
      [] c = "I" -> "i" [] c = "J" -> "j" [] c = "K" -> "k" [] c = "L" -> "l"
      [] c = "M" -> "m" [] c = "N" -> "n" [] c = "O" -> "o" [] c = "P" -> "p"
      [] c = "Q" -> "q" [] c = "R" -> "r" [] c = "S" -> "s" [] c = "T" -> "t"
      [] c = "U" -> "u" [] c = "V" -> "v" [] c = "W" -> "w" [] c = "X" -> "x"
      [] c = "Y" -> "y" [] c = "Z" -> "z" [] OTHER -> c

\* str.lower()
Lower(s) == [i \in 1..Len(s) |-> LowerChar(s[i])]

\* The first index j >= i with j > Len(s) or s[j] \notin C: the end of a
\* greedy run of characters of class C that starts at i.
RECURSIVE SkipIn(_, _, _)
SkipIn(s, i, C) ==
    IF i <= Len(s) /\ s[i] \in C THEN SkipIn(s, i + 1, C) ELSE i

\* The same for a run of characters outside C (\S+ with C = SpaceChars, and
\* .* with C = NewlineChars).
RECURSIVE SkipNotIn(_, _, _)
SkipNotIn(s, i, C) ==
    IF i <= Len(s) /\ s[i] \notin C THEN SkipNotIn(s, i + 1, C) ELSE i

\* `$` without re.MULTILINE holds at position i (the next character to read)
\* at the end of the string and just before a newline that ends the string.
AtDollar(s, i) ==
    \/ i = Len(s) + 1
    \/ i = Len(s) /\ s[i] = "\n"

\* The start of the maximal run of characters of class C that ends just
\* before index e.
RECURSIVE RunStart(_, _, _)
RunStart(s, e, C) ==
    IF e > 1 /\ s[e - 1] \in C THEN RunStart(s, e - 1, C) ELSE e

\* re.sub( r'^C+', repl, s )
SubLeadingRun(s, C, repl) ==
    LET e == SkipIn(s, 1, C)
    IN  IF e = 1 THEN s ELSE repl \o SubSeq(s, e, Len(s))

\* re.sub( r'C+$', repl, s ): the run must end where `$` holds, which is the
\* end of the string or the position before a final newline.
SubTrailingRun(s, C, repl) ==
    LET n == Len(s)
        e == IF n > 0 /\ s[n] = "\n" /\ "\n" \notin C THEN n ELSE n + 1
        b == RunStart(s, e, C)
    IN  IF b = e THEN s
        ELSE SubSeq(s, 1, b - 1) \o repl \o SubSeq(s, e, n)

\* re.search( r'^\*', s ) is not None
StartsWithStar(s) == Len(s) > 0 /\ s[1] = "*"

\* re.search( r'\*$', s ) is not None
EndsWithStar(s) ==
    \E i \in 1..Len(s) : s[i] = "*" /\ AtDollar(s, i + 1)

\* re.search( r'\*', s ) is not None
ContainsStar(s) == \E i \in 1..Len(s) : s[i] = "*"

\* re.sub( r'\s+', r'', s )
RECURSIVE RemoveSpace(_)
RemoveSpace(s) ==
    IF s = <<>> THEN <<>>
    ELSE IF Head(s) \in SpaceChars THEN RemoveSpace(Tail(s))
    ELSE <<Head(s)>> \o RemoveSpace(Tail(s))

\* re.search( r'^[-+]?\d+(\.\d+)?$', s ) is not None
IsNumber(s) ==
    LET a == IF Len(s) > 0 /\ s[1] \in SignChars THEN 2 ELSE 1
        b == SkipIn(s, a, DigitChars)
        c == IF b <= Len(s) /\ s[b] = "." THEN SkipIn(s, b + 1, DigitChars) ELSE b
    IN  /\ b > a
        /\ \/ AtDollar(s, b)
           \/ c > b + 1 /\ AtDollar(s, c)

(***************************************************************************)
(* String literals of the source, as character sequences.                  *)
(***************************************************************************)
s_subject == <<"s", "u", "b", "j", "e", "c", "t">>

s_file == <<"f", "i", "l", "e">>

s_somatic_mutation == <<"s", "o", "m", "a", "t", "i", "c", "_", "m", "u", "t", "a", "t", "i", "o", "n">>

s_subject_id == <<"s", "u", "b", "j", "e", "c", "t", "_", "i", "d">>

s_sex == <<"s", "e", "x">>

s_species == <<"s", "p", "e", "c", "i", "e", "s">>

s_year_of_birth == <<"y", "e", "a", "r", "_", "o", "f", "_", "b", "i", "r", "t", "h">>

s_file_id == <<"f", "i", "l", "e", "_", "i", "d">>

s_byte_size == <<"b", "y", "t", "e", "_", "s", "i", "z", "e">>

s_label == <<"l", "a", "b", "e", "l">>

s_checksum == <<"c", "h", "e", "c", "k", "s", "u", "m">>

s_drs_uri == <<"d", "r", "s", "_", "u", "r", "i">>

s_file_integer_id_alias == <<"f", "i", "l", "e", "_", "i", "n", "t", "e", "g", "e", "r", "_", "i", "d", "_", "a", "l", "i", "a", "s">>

s_hotspot == <<"h", "o", "t", "s", "p", "o", "t">>

s_t_depth == <<"t", "_", "d", "e", "p", "t", "h">>

s_cda_subject_id == <<"c", "d", "a", "_", "s", "u", "b", "j", "e", "c", "t", "_", "i", "d">>

s_subject_associated_project == <<"s", "u", "b", "j", "e", "c", "t", "_", "a", "s", "s", "o", "c", "i", "a", "t", "e", "d", "_", "p", "r", "o", "j", "e", "c", "t">>

s_file_created == <<"f", "i", "l", "e", "_", "c", "r", "e", "a", "t", "e", "d">>

s_id_suffix == <<"_", "i", "d">>

s_infix_from == <<"_", "f", "r", "o", "m", "_">>

s_subject_from_ == <<"s", "u", "b", "j", "e", "c", "t", "_", "f", "r", "o", "m", "_">>

s_NULL == <<"N", "U", "L", "L">>

s_null == <<"n", "u", "l", "l">>

s_true == <<"t", "r", "u", "e">>

s_false == <<"f", "a", "l", "s", "e">>

s_t == <<"t">>

s_f == <<"f">>

s_gdc == <<"g", "d", "c">>

s_pdc == <<"p", "d", "c">>

s_idc == <<"i", "d", "c">>

s_cds == <<"c", "d", "s">>

s_icdc == <<"i", "c", "d", "c">>

(***************************************************************************)
(* Column metadata: the rows the API's `columns` endpoint returns, as      *)
(* columns() presents them (endpoint -> table, fieldName -> column,        *)
(* type -> data_type), in the default (table, column) order.  One column   *)
(* of a data type the filter parser does not anticipate is included.       *)
(***************************************************************************)
ColumnsResponse ==
    << [table |-> s_file,             column |-> s_file_id,       data_type |-> "text"],
       [table |-> s_file,             column |-> s_byte_size,     data_type |-> "bigint"],
       [table |-> s_file,             column |-> s_file_created,  data_type |-> "date"],
       [table |-> s_file,             column |-> s_label,         data_type |-> "text"],
       [table |-> s_somatic_mutation, column |-> s_cda_subject_id, data_type |-> "text"],
       [table |-> s_somatic_mutation, column |-> s_hotspot,       data_type |-> "boolean"],
       [table |-> s_somatic_mutation, column |-> s_t_depth,       data_type |-> "numeric"],
       [table |-> s_subject,          column |-> s_subject_id,    data_type |-> "text"],
       [table |-> s_subject,          column |-> s_sex,           data_type |-> "text"],
       [table |-> s_subject,          column |-> s_species,       data_type |-> "text"],
       [table |-> s_subject,          column |-> s_subject_associated_project, data_type |-> "text"],
       [table |-> s_subject,          column |-> s_year_of_birth, data_type |-> "integer"] >>

banned_columns == {s_subject_associated_project}

\* SelectSeq with a predicate given as a set of accepted elements.
RECURSIVE Filter(_, _)
Filter(rows, keep) ==
    IF rows = <<>> THEN <<>>
    ELSE IF Head(rows) \in keep THEN <<Head(rows)>> \o Filter(Tail(rows), keep)
    ELSE Filter(Tail(rows), keep)

Range(f) == {f[i] : i \in DOMAIN f}

\* columns() with no filter argument: the metadata without the banned columns.
AllColumns ==
    Filter(ColumnsResponse, {r \in Range(ColumnsResponse) : r.column \notin banned_columns})

\* tables(): the distinct values of the `table` field of columns().
tables == {r.table : r \in Range(AllColumns)}

(***************************************************************************)
(* columns( column=... ) turns its filter string into a regular expression *)
(* and keeps the rows whose column name contains a match, ignoring case.   *)
(***************************************************************************)

\* re.sub( r'$', r'$', p ): a `$` is inserted wherever `$` holds.
AppendDollar(p) ==
    IF Len(p) > 0 /\ p[Len(p)] = "\n"
    THEN SubSeq(p, 1, Len(p) - 1) \o <<"$", "\n", "$">>
    ELSE p \o <<"$">>

\* The wildcard processing of one filter pattern.
MatchPattern(filter_pattern) ==
    LET p1 == IF StartsWithStar(filter_pattern)
              THEN SubLeadingRun(filter_pattern, StarChars, <<>>)
              ELSE <<"^">> \o filter_pattern
    IN  IF EndsWithStar(p1) THEN SubTrailingRun(p1, StarChars, <<>>)
        ELSE AppendDollar(p1)

\* re.compile() rejects a repeated quantifier ("multiple repeat").
PatternError(p) == \E i \in 1..(Len(p) - 1) : p[i] = "*" /\ p[i + 1] = "*"

\* One pattern character against one text character (re.IGNORECASE; `.` is
\* any character but a newline).
CharMatches(pc, tc) ==
    IF pc = "." THEN tc # "\n" ELSE LowerChar(pc) = LowerChar(tc)

\* Does pattern p match text t starting at position j?  The pattern language
\* is what the model's alphabet can produce: literals, `.`, `x*`, and the
\* assertions `^` and `$`.
RECURSIVE MatchHere(_, _, _)
MatchHere(p, t, j) ==
    IF p = <<>> THEN TRUE
    ELSE IF Len(p) >= 2 /\ p[2] = "*"
    THEN \E k \in j..(Len(t) + 1) :
            /\ \A m \in j..(k - 1) : CharMatches(p[1], t[m])
            /\ MatchHere(SubSeq(p, 3, Len(p)), t, k)
    ELSE IF p[1] = "^" THEN j = 1 /\ MatchHere(Tail(p), t, j)
    ELSE IF p[1] = "$" THEN AtDollar(t, j) /\ MatchHere(Tail(p), t, j)
    ELSE /\ j <= Len(t)
         /\ CharMatches(p[1], t[j])
         /\ MatchHere(Tail(p), t, j + 1)

\* Series.str.contains( p, case=False ) for one value.
Contains(p, t) ==
    \E j \in (IF p # <<>> /\ p[1] = "^" THEN {1} ELSE 1..(Len(t) + 1)) : MatchHere(p, t, j)

\* columns( column=name ): the rows whose column name matches.
columns_by_column(name) ==
    LET p == MatchPattern(name)
    IN  Filter(AllColumns, {r \in Range(AllColumns) : Contains(p, r.column)})

\* columns( table=name )
columns_by_table(name) ==
    LET p == MatchPattern(name)
    IN  Filter(AllColumns, {r \in Range(AllColumns) : Contains(p, r.table)})

(***************************************************************************)
(* The filter-string parser of fetch_rows() and summary_counts().          *)
(***************************************************************************)

\* The ends of the greedy runs of r'^\S+\s+\S+\s+': a column run, a
\* whitespace run, an operator run and a second whitespace run, each
\* starting where the run before it ended.
ColEnd(item) == SkipNotIn(item, 1, SpaceChars)

Ws1End(item, a) == SkipIn(item, a, SpaceChars)

OpEnd(item, b) == SkipNotIn(item, b, SpaceChars)

Ws2End(item, c) == SkipIn(item, c, SpaceChars)

\* re.search( r'^\S+\s+\S+\s+\S.*$', item ) is not None
ConformsToFormat(item) ==
    LET a == ColEnd(item)
        b == Ws1End(item, a)
        c == OpEnd(item, b)
        d == Ws2End(item, c)
    IN  /\ a > 1
        /\ b > a
        /\ c > b
        /\ d > c
        /\ d <= Len(item)
        /\ AtDollar(item, SkipNotIn(item, d + 1, NewlineChars))

\* re.sub( r'^([\S]+)\s.*', r'\1', item ).lower(): the match is the column
\* run, one whitespace character and everything up to the next newline; what
\* follows the match stays in the result.
ColumnNameOf(item) ==
    LET a == ColEnd(item)
    IN  IF a = 1 \/ a > Len(item) THEN Lower(item)
        ELSE Lower(SubSeq(item, 1, a - 1)
                   \o SubSeq(item, SkipNotIn(item, a + 1, NewlineChars), Len(item)))

\* re.sub( r'^\S+\s+(\S+)\s.*', r'\1', item )
OperatorOf(item) ==
    LET a == ColEnd(item)
        b == Ws1End(item, a)
        c == OpEnd(item, b)
    IN  IF a = 1 \/ b = a \/ c = b \/ c > Len(item) THEN item
        ELSE SubSeq(item, b, c - 1)
             \o SubSeq(item, SkipNotIn(item, c + 1, NewlineChars), Len(item))

\* re.sub( r'^\S+\s+\S+\s+(\S.*)$', r'\1', item )
ValueOf(item) ==
    IF ~ConformsToFormat(item) THEN item
    ELSE LET d == Ws2End(item, OpEnd(item, Ws1End(item, ColEnd(item))))
             e == SkipNotIn(item, d + 1, NewlineChars)
         IN  SubSeq(item, d, e - 1) \o SubSeq(item, e, Len(item))

\* The operator text as a node type; every text that is not one of the
\* operators the code names is "unsupported".
OpToken(op) ==
    CASE op = <<"=">> -> "="
      [] op = <<"=", "=">> -> "=="
      [] op = <<"!", "=">> -> "!="
      [] op = <<"<">> -> "<"
      [] op = <<"<", "=">> -> "<="
      [] op = <<">">> -> ">"
      [] op = <<">", "=">> -> ">="
      [] OTHER -> "unsupported"

allowed_operators == {">", ">=", "<", "<=", "=", "!="}

\* operators_by_data_type; a data type that is not a key raises KeyError.
operators_by_data_type_keys == {"bigint", "boolean", "integer", "numeric", "text"}

\* operators_by_data_type with every operator usable on every data type.
operators_by_data_type_untyped(data_type) == allowed_operators

operators_by_data_type(data_type) ==
    IF data_type \in {"boolean", "text"} THEN {"=", "!="} ELSE allowed_operators

boolean_alias_keys == {s_true, s_t, s_false, s_f}

boolean_alias(v) == IF v \in {s_true, s_t} THEN s_true ELSE s_false

\* Quotes are removed from both ends of the value; surrounding whitespace
\* is removed unless the column holds text.
StripValue(item, target_data_type) ==
    LET v0 == ValueOf(item)
        v1 == SubLeadingRun(v0, QuoteChars, <<>>)
        v2 == SubTrailingRun(v1, QuoteChars, <<>>)
    IN  IF target_data_type # "text"
        THEN SubTrailingRun(SubLeadingRun(v2, SpaceChars, <<>>), SpaceChars, <<>>)
        ELSE v2

IsNull(filter_value) == Lower(filter_value) = s_null

\* Leading and trailing runs of * become one % each.
WildcardValue(filter_value) ==
    IF StartsWithStar(filter_value) \/ EndsWithStar(filter_value)
    THEN SubTrailingRun(SubLeadingRun(filter_value, StarChars, <<"%">>), StarChars, <<"%">>)
    ELSE filter_value

\* WildcardOperator that leaves the operator of a wildcard filter as written.
WildcardOperator_as_written(filter_value, filter_operator) == filter_operator

WildcardOperator(filter_value, filter_operator) ==
    IF StartsWithStar(filter_value) \/ EndsWithStar(filter_value)
    THEN IF filter_operator = "!=" THEN "NOT LIKE" ELSE "LIKE"
    ELSE filter_operator

Failure(kind, message) == [status |-> kind, message |-> message]

Parsed(query) == [status |-> "ok", query |-> query]

Comparison(node_type, column, r_type, r_value) ==
    [node_type |-> node_type,
     l |-> [node_type |-> "column", value |-> column],
     r |-> [node_type |-> r_type, value |-> r_value]]

\* The value checks of the loop body and the Query object they end in.
ParseValue(filter_column_name, filter_operator, target_data_type, filter_value) ==
    IF IsNull(filter_value)
    THEN IF filter_operator = "="
         THEN Parsed(Comparison("IS", filter_column_name, "unquoted", s_NULL))
         ELSE IF filter_operator = "!="
         THEN Parsed(Comparison("IS NOT", filter_column_name, "unquoted", s_NULL))
         ELSE Failure("error", "use only = and != when filtering on NULL")
    ELSE IF target_data_type = "boolean"
    THEN IF Lower(filter_value) \notin boolean_alias_keys
         THEN Failure("error", "requires a true/false value")
         ELSE Parsed(Comparison(filter_operator, filter_column_name, "unquoted",
                                boolean_alias(Lower(filter_value))))
    ELSE IF target_data_type \in {"bigint", "integer", "numeric"}
    THEN IF ~IsNumber(filter_value)
         THEN Failure("error", "requires a number value")
         ELSE Parsed(Comparison(filter_operator, filter_column_name, "unquoted", filter_value))
    ELSE IF target_data_type # "text"
    THEN Failure("error", "unanticipated target_data_type")
    ELSE IF ContainsStar(WildcardValue(filter_value))
    THEN Failure("error", "wildcards are only allowed at the ends")
    ELSE Parsed(Comparison(WildcardOperator(filter_value, filter_operator), filter_column_name,
                           "quoted", WildcardValue(filter_value)))

\* The column, operator and data type checks of the loop body.
ParseColumn(item, filter_column_name, filter_column_metadata, filter_operator) ==
    IF Len(filter_column_metadata) # 1 THEN Failure("error", "not a searchable CDA column")
    ELSE IF filter_operator \notin allowed_operators
    THEN Failure("error", "operator is not supported")
    ELSE IF filter_column_metadata[1].data_type \notin operators_by_data_type_keys
    THEN Failure("raise", "KeyError")
    ELSE IF filter_operator \notin operators_by_data_type(filter_column_metadata[1].data_type)
    THEN Failure("error", "operator is not usable for type")
    ELSE ParseValue(filter_column_name, filter_operator, filter_column_metadata[1].data_type,
                    StripValue(item, filter_column_metadata[1].data_type))

\* if filter_operator == '==': filter_operator = '='
SingleEquals(filter_operator) == IF filter_operator = "==" THEN "=" ELSE filter_operator

\* The body of the loop over match_all (and, identically, match_any): the
\* Query object for one filter string, or the error that ends the call.
\* status "error" is a printed error and a None result, "raise" an exception
\* that leaves the function.
ParseFilter(item) ==
    LET filter_column_name == ColumnNameOf(item)
    IN  IF PatternError(MatchPattern(filter_column_name)) THEN Failure("raise", "re.error")
        ELSE ParseColumn(item, filter_column_name, columns_by_column(filter_column_name),
                         SingleEquals(OpToken(OperatorOf(item))))

\* One pass of the loop before the passes that follow it: the failure of
\* the first filter string that fails, or the Query objects in input order.
FirstFailure(first, rest) ==
    IF first.status # "ok" THEN first
    ELSE IF rest.status # "ok" THEN rest
    ELSE [status |-> "ok", queries |-> <<first.query>> \o rest.queries]

\* The loop over one filter group.
RECURSIVE ParseGroup(_)
ParseGroup(items) ==
    IF items = <<>> THEN [status |-> "ok", queries |-> <<>>]
    ELSE FirstFailure(ParseFilter(Head(items)), ParseGroup(Tail(items)))

(***************************************************************************)
(* The query-tree builder.                                                 *)
(***************************************************************************)

\* Python's None.
None == [node_type |-> "None"]

Binary(node_type, l, r) == [node_type |-> node_type, l |-> l, r |-> r]

\* AddRemaining with the operands of each new node exchanged, which grows
\* the chain to the right.
RECURSIVE AddRemaining_rightward(_, _, _, _)
AddRemaining_rightward(queries, node_type, i, combined) ==
    IF i > Len(queries) THEN combined
    ELSE AddRemaining_rightward(queries, node_type, i + 1,
                                [node_type |-> node_type, l |-> queries[i], r |-> combined])

\* for i in range( 2, len( queries ) ): bigger_query = (combined OP queries[i])
RECURSIVE AddRemaining(_, _, _, _)
AddRemaining(queries, node_type, i, combined) ==
    IF i > Len(queries) THEN combined
    ELSE AddRemaining(queries, node_type, i + 1, Binary(node_type, combined, queries[i]))

\* combined_match_all_query / combined_match_any_query /
\* combined_data_source_query
CombineGroup(queries, node_type) ==
    IF Len(queries) = 0 THEN None
    ELSE IF Len(queries) = 1 THEN queries[1]
    ELSE AddRemaining(queries, node_type, 3, Binary(node_type, queries[1], queries[2]))

\* The name of the column that says a row derives from a data source.
\* fetch_rows() reads the flag of the subject for somatic_mutation rows;
\* summary_counts() has no such case.
DataSourceColumn(fn, table, item) ==
    IF fn = "fetch_rows" /\ table = s_somatic_mutation
    THEN s_subject_from_ \o item
    ELSE table \o s_infix_from \o item

\* queries_for_data_source
DataSourceQueries(fn, table, data_source) ==
    [i \in 1..Len(data_source) |->
        Comparison("=", DataSourceColumn(fn, table, data_source[i]), "unquoted", s_true)]

\* MatchEverything without the case of the table that has no ID column.
MatchEverything_by_id(table) ==
    Comparison("IS NOT", table \o s_id_suffix, "unquoted", s_NULL)

\* The predicate sent when there is no filter at all.
MatchEverything(table) ==
    IF table = s_somatic_mutation
    THEN Binary("OR", Comparison("IS", s_hotspot, "unquoted", s_NULL),
                      Comparison("IS NOT", s_hotspot, "unquoted", s_NULL))
    ELSE Comparison("IS NOT", table \o s_id_suffix, "unquoted", s_NULL)

\* CombineAll that forgets the data sources when both filter groups are
\* present.
CombineAll_without_sources(table, combined_match_all_query, combined_match_any_query, combined_data_source_query) ==
    IF combined_match_all_query # None /\ combined_match_any_query # None
    THEN Binary("AND", combined_match_all_query, combined_match_any_query)
    ELSE IF combined_match_all_query # None
    THEN IF combined_data_source_query = None THEN combined_match_all_query
         ELSE Binary("AND", combined_data_source_query, combined_match_all_query)
    ELSE IF combined_match_any_query # None
    THEN IF combined_data_source_query = None THEN combined_match_any_query
         ELSE Binary("AND", combined_data_source_query, combined_match_any_query)
    ELSE IF combined_data_source_query # None THEN combined_data_source_query
    ELSE MatchEverything(table)

\* final_query, before any SELECT of extra columns is wrapped around it.
CombineAll(table, combined_match_all_query, combined_match_any_query, combined_data_source_query) ==
    IF combined_match_all_query = None /\ combined_match_any_query = None
       /\ combined_data_source_query = None
    THEN MatchEverything(table)
    ELSE IF combined_data_source_query = None
    THEN IF combined_match_any_query = None THEN combined_match_all_query
         ELSE IF combined_match_all_query = None THEN combined_match_any_query
         ELSE Binary("AND", combined_match_all_query, combined_match_any_query)
    ELSE IF combined_match_all_query = None /\ combined_match_any_query = None
         THEN combined_data_source_query
    ELSE IF combined_match_any_query = None
         THEN Binary("AND", combined_data_source_query, combined_match_all_query)
    ELSE IF combined_match_all_query = None
         THEN Binary("AND", combined_data_source_query, combined_match_any_query)
    ELSE Binary("AND", Binary("AND", combined_match_all_query, combined_match_any_query),
                combined_data_source_query)

(***************************************************************************)
(* Column selection of fetch_rows(): add_columns, link_to_table and        *)
(* provenance.                                                             *)
(***************************************************************************)
s_identifier_suffix == <<"_", "i", "d", "e", "n", "t", "i", "f", "i", "e", "r">>

s_subject_identifier_system == <<"s", "u", "b", "j", "e", "c", "t", "_", "i", "d", "e", "n", "t", "i", "f", "i", "e", "r", "_", "s", "y", "s", "t", "e", "m">>

s_subject_identifier_field_name == <<"s", "u", "b", "j", "e", "c", "t", "_", "i", "d", "e", "n", "t", "i", "f", "i", "e", "r", "_", "f", "i", "e", "l", "d", "_", "n", "a", "m", "e">>

s_subject_identifier_value == <<"s", "u", "b", "j", "e", "c", "t", "_", "i", "d", "e", "n", "t", "i", "f", "i", "e", "r", "_", "v", "a", "l", "u", "e">>

\* [a-z0-9_]
IdentChars ==
    {"a", "b", "c", "d", "e", "f", "g", "h", "i", "j", "k", "l", "m", "n", "o",
     "p", "q", "r", "s", "t", "u", "v", "w", "x", "y", "z", "_"} \cup DigitChars

\* re.sub( r'[^a-z0-9_]', r'', column_to_add ).lower()
RECURSIVE KeepIdentChars(_)
KeepIdentChars(c) ==
    IF c = <<>> THEN <<>>
    ELSE IF Head(c) \in IdentChars THEN <<Head(c)>> \o KeepIdentChars(Tail(c))
    ELSE KeepIdentChars(Tail(c))

CleanAddColumns(add_columns) ==
    [i \in 1..Len(add_columns) |-> Lower(KeepIdentChars(add_columns[i]))]

\* columns( table=... )['column'].tolist()
ColumnNames(rows) == [i \in 1..Len(rows) |-> rows[i].column]

\* ', '.join( columns_to_fetch )
RECURSIVE JoinComma(_)
JoinComma(names) ==
    IF names = <<>> THEN <<>>
    ELSE IF Len(names) = 1 THEN names[1]
    ELSE names[1] \o <<",", " ">> \o JoinComma(Tail(names))

\* The add_columns the rest of the function works with: link_to_table stands
\* for all columns of that table.
EffectiveAddColumns(link_to_table, add_columns) ==
    CleanAddColumns(IF link_to_table # <<>>
                    THEN ColumnNames(columns_by_table(link_to_table))
                    ELSE add_columns)

\* join_tables
JoinTables(add) == {columns_by_column(add[i])[1].table : i \in 1..Len(add)}

\* for column_to_add in add_columns: append the ones not yet present.
RECURSIVE AppendMissing(_, _)
AppendMissing(columns_to_fetch, add) ==
    IF add = <<>> THEN columns_to_fetch
    ELSE IF Head(add) \in Range(columns_to_fetch)
    THEN AppendMissing(columns_to_fetch, Tail(add))
    ELSE AppendMissing(Append(columns_to_fetch, Head(add)), Tail(add))

\* list.remove( x ): the first occurrence goes.
RECURSIVE RemoveFirst(_, _)
RemoveFirst(names, x) ==
    IF names = <<>> THEN <<>>
    ELSE IF Head(names) = x THEN Tail(names)
    ELSE <<Head(names)>> \o RemoveFirst(Tail(names), x)

associated_subject_provenance_columns ==
    <<s_cda_subject_id, s_subject_identifier_system,
      s_subject_identifier_field_name, s_subject_identifier_value>>

\* source_table_columns_in_order
SourceTableColumns(table, provenance) ==
    IF provenance /\ table # s_somatic_mutation
    THEN Append(ColumnNames(columns_by_table(table)), table \o s_identifier_suffix)
    ELSE ColumnNames(columns_by_table(table))

\* join_table_id_field, <<>> standing for None.
JoinTableIdField(join_tables) ==
    IF join_tables = {} \/ join_tables = {s_somatic_mutation} THEN <<>>
    ELSE (CHOOSE join_table_name \in join_tables : TRUE) \o s_id_suffix

\* columns_to_fetch when extra columns are selected from a second table.
ColumnsToFetch(source_table_columns_in_order, join_table_id_field, add) ==
    AppendMissing(IF join_table_id_field = <<>> THEN source_table_columns_in_order
                  ELSE Append(source_table_columns_in_order, join_table_id_field),
                  add)

\* not use_only_default_columns
UsesExtraColumns(source_table_columns_in_order, join_table_id_field, add) ==
    \/ join_table_id_field # <<>>
    \/ \E i \in 1..Len(add) : add[i] \notin Range(source_table_columns_in_order)

SelectValues(columns_to_fetch, final_query) ==
    [node_type |-> "SELECT",
     l |-> [node_type |-> "SELECTVALUES", value |-> JoinComma(columns_to_fetch)],
     r |-> final_query]

\* query_for_extra_columns with final_query attached, or final_query itself
\* when only the default columns are fetched.
WithExtraColumns(table, provenance, source_table_columns_in_order, join_table_id_field, add, final_query) ==
    IF UsesExtraColumns(source_table_columns_in_order, join_table_id_field, add)
    THEN SelectValues(ColumnsToFetch(source_table_columns_in_order, join_table_id_field, add),
                      final_query)
    ELSE IF table = s_somatic_mutation /\ provenance
    THEN SelectValues(RemoveFirst(source_table_columns_in_order, s_cda_subject_id)
                      \o associated_subject_provenance_columns,
                      final_query)
    ELSE final_query

(***************************************************************************)
(* Argument validation and query construction: everything fetch_rows() and *)
(* summary_counts() do before the first row or counts request.             *)
(***************************************************************************)

\* The format loop over one filter group: "" when every item passes.
RECURSIVE FormatError(_)
FormatError(items) ==
    IF items = <<>> THEN ""
    ELSE IF Len(Head(items)) = 0 THEN "must be a nonempty filter string"
    ELSE IF ~ConformsToFormat(Head(items)) THEN "does not conform to 'COLUMN_NAME OP VALUE' format"
    ELSE FormatError(Tail(items))

allowed_data_source_values == {s_gdc, s_pdc, s_idc, s_cds, s_icdc}

\* [ re.sub( r'\s+', r'', item ).lower() for item in data_source ]
NormalizeDataSource(data_source) ==
    [i \in 1..Len(data_source) |-> Lower(RemoveSpace(data_source[i]))]

DataSourceError(data_source) ==
    IF \E i \in 1..Len(data_source) : Len(data_source[i]) = 0
    THEN "data_source must be a nonempty string"
    ELSE IF \E i \in 1..Len(data_source) :
                NormalizeDataSource(data_source)[i] \notin allowed_data_source_values
    THEN "data_source must be one of GDC, PDC, IDC, CDS, ICDC"
    ELSE ""

\* The checks on the columns to add, "" when they pass.
AddColumnsError(add) ==
    IF \E i \in 1..Len(add) : Len(columns_by_column(add[i])) # 1
    THEN "add_columns must all be searchable CDA column names"
    ELSE IF Cardinality(JoinTables(add)) > 1
    THEN "add_columns must all come from a single table"
    ELSE ""

\* JoinDirectiveError without the check of provenance against the other two
\* directives.
JoinDirectiveError_without_provenance(a) ==
    IF a.link_to_table # <<>> /\ Len(a.add_columns) > 0
    THEN "if link_to_table is specified, add_columns cannot also be used"
    ELSE IF a.provenance THEN ""
    ELSE AddColumnsError(EffectiveAddColumns(a.link_to_table, a.add_columns))

\* The checks on the join directives, "" when they pass.
JoinDirectiveError(a) ==
    IF a.link_to_table # <<>> /\ Len(a.add_columns) > 0
    THEN "if link_to_table is specified, add_columns cannot also be used"
    ELSE IF a.provenance /\ (a.link_to_table # <<>> \/ Len(a.add_columns) > 0)
    THEN "if provenance is True, neither link_to_table nor add_columns can be used"
    ELSE IF a.provenance THEN ""
    ELSE AddColumnsError(EffectiveAddColumns(a.link_to_table, a.add_columns))

\* final_query_without_extra_columns and final_query.  Only fetch_rows()
\* selects columns.
FinalQueries(a, built, add) ==
    IF a.fn # "fetch_rows" THEN built
    ELSE [built EXCEPT !.final_query =
              WithExtraColumns(a.table, a.provenance,
                               SourceTableColumns(a.table, a.provenance),
                               JoinTableIdField(JoinTables(add)), add, @)]

\* The filter tree and the query that carries it, from the combined queries
\* of the three groups.
BuildQueries(a, combined_match_all_query, combined_match_any_query, combined_data_source_query) ==
    FinalQueries(a,
                 [status |-> "ok",
                  combined_match_all_query |-> combined_match_all_query,
                  combined_match_any_query |-> combined_match_any_query,
                  combined_data_source_query |-> combined_data_source_query,
                  final_query_without_extra_columns |->
                      CombineAll(a.table, combined_match_all_query,
                                 combined_match_any_query, combined_data_source_query),
                  final_query |->
                      CombineAll(a.table, combined_match_all_query,
                                 combined_match_any_query, combined_data_source_query)],
                 IF a.provenance THEN <<>>
                 ELSE EffectiveAddColumns(a.link_to_table, a.add_columns))

\* What the parse loops over match_all and then match_any leave: the first
\* failure, or the queries built from what they parsed.
ParsedAndBuilt(a, all, any) ==
    IF all.status # "ok" THEN all
    ELSE IF any.status # "ok" THEN any
    ELSE BuildQueries(a, CombineGroup(all.queries, "AND"), CombineGroup(any.queries, "OR"),
                      CombineGroup(DataSourceQueries(a.fn, a.table,
                                                     NormalizeDataSource(a.data_source)),
                                   "AND"))

ParseAndBuild(a) == ParsedAndBuilt(a, ParseGroup(a.match_all), ParseGroup(a.match_any))

\* A check that printed `message` ends the call; after one that printed
\* nothing the function goes on.
Checked(message, rest) == IF message # "" THEN Failure("error", message) ELSE rest

s_dataframe == <<"d", "a", "t", "a", "f", "r", "a", "m", "e">>

s_tsv == <<"t", "s", "v">>

s_list == <<"l", "i", "s", "t">>

s_json == <<"j", "s", "o", "n">>

s_dict == <<"d", "i", "c", "t">>

s_dataframe_list == s_dataframe \o <<"_">> \o s_list

s_count == <<"c", "o", "u", "n", "t">>

s_value == <<"v", "a", "l", "u", "e">>

s_asc_suffix == <<":", "a", "s", "c">>

s_desc_suffix == <<":", "d", "e", "s", "c">>

\* str.strip()
Strip(s) ==
    IF SkipIn(s, 1, SpaceChars) > Len(s) THEN <<>>
    ELSE SubSeq(s, SkipIn(s, 1, SpaceChars), RunStart(s, Len(s) + 1, SpaceChars) - 1)

\* The checks of return_data_as against the return types of the function and
\* against output_file, "" when they pass.  file_type is the one return type
\* that writes a file.
ReturnTypeError(return_data_as, output_file, allowed_return_types, file_type) ==
    IF Lower(return_data_as) \notin allowed_return_types
    THEN "unrecognized return type requested"
    ELSE IF Lower(return_data_as) = file_type /\ Strip(output_file) = <<>>
    THEN "file return type requested, but output_file not specified"
    ELSE IF Lower(return_data_as) # file_type /\ Strip(output_file) # <<>>
    THEN "output_file was specified, but return_data_as is not the file return type"
    ELSE ""

\* re.sub( r':asc$', r'', sort_by )
RemoveAsc(sort_by) ==
    IF \E i \in 1..(Len(sort_by) - 3) : SubSeq(sort_by, i, i + 3) = s_asc_suffix /\ AtDollar(sort_by, i + 4)
    THEN LET i == CHOOSE i \in 1..(Len(sort_by) - 3) :
                      SubSeq(sort_by, i, i + 3) = s_asc_suffix /\ AtDollar(sort_by, i + 4)
         IN  SubSeq(sort_by, 1, i - 1) \o SubSeq(sort_by, i + 4, Len(sort_by))
    ELSE sort_by

\* allowed_sort_by_options
allowed_sort_by_options(return_data_as) ==
    IF return_data_as = s_list THEN {<<>>, s_value, s_value \o s_desc_suffix}
    ELSE {<<>>, s_count, s_count \o s_desc_suffix, s_value, s_value \o s_desc_suffix}

\* sort_by as column_values() sorts by it, once the checks have passed.
SortBy(return_data_as, sort_by) ==
    IF RemoveAsc(Lower(sort_by)) # <<>> THEN RemoveAsc(Lower(sort_by))
    ELSE IF Lower(return_data_as) = s_list THEN s_value
    ELSE s_count \o s_desc_suffix

SortByError(return_data_as, sort_by) ==
    IF RemoveAsc(Lower(sort_by)) \in allowed_sort_by_options(Lower(return_data_as)) THEN ""
    ELSE IF Lower(return_data_as) = s_list
    THEN "return_data_as='list' can only be processed with sort_by='value' or 'value:desc'"
    ELSE "unrecognized sort_by"

\* fetch_rows() up to the first request.
PrepareFetchRows(a) ==
    IF a.table \notin tables THEN Failure("error", "table must be a searchable CDA table")
    ELSE IF a.link_to_table # <<>> /\ a.link_to_table \notin tables
    THEN Failure("error", "link_to_table must be a searchable CDA table")
    ELSE IF a.link_to_table # <<>> /\ a.link_to_table = a.table
    THEN Failure("error", "link_to_table cannot be the same as table")
    ELSE Checked(ReturnTypeError(a.return_data_as, a.output_file,
                                 {<<>>, s_dataframe, s_tsv}, s_tsv),
         Checked(FormatError(a.match_all),
         Checked(FormatError(a.match_any),
         Checked(DataSourceError(a.data_source),
         Checked(JoinDirectiveError(a),
         ParseAndBuild(a))))))

\* summary_counts() up to the counts request.
PrepareSummaryCounts(a) ==
    IF a.table = <<>> THEN Failure("error", "table is required")
    ELSE IF a.table \notin tables THEN Failure("error", "table must be a searchable CDA table")
    ELSE Checked(ReturnTypeError(a.return_data_as, a.output_file,
                                 {<<>>, s_dataframe_list, s_dict, s_json}, s_json),
         Checked(FormatError(a.match_all),
         Checked(FormatError(a.match_any),
         Checked(DataSourceError(a.data_source),
         ParseAndBuild(a)))))

\* expensive_columns without `label`.
expensive_columns_without_label ==
    {s_file_id, s_byte_size, s_checksum, s_drs_uri, s_file_integer_id_alias}

expensive_columns ==
    {s_file_id, s_byte_size, s_checksum, s_drs_uri, s_file_integer_id_alias, s_label}

\* column_values() up to the first unique_values request.
PrepareColumnValues(a) ==
    LET column == Lower(RemoveSpace(a.column))
    IN  IF a.column = <<>> THEN Failure("error", "column is required")
        ELSE IF PatternError(MatchPattern(column)) THEN Failure("raise", "re.error")
        ELSE IF Len(columns_by_column(column)) = 0
        THEN Failure("error", "column must be a searchable CDA column")
        ELSE IF ~a.force /\ column \in expensive_columns
        THEN Failure("error", "high-overhead column, use force=True")
        ELSE Checked(ReturnTypeError(a.return_data_as, a.output_file,
                                     {<<>>, s_dataframe, s_tsv, s_list}, s_tsv),
             Checked(SortByError(a.return_data_as, a.sort_by),
             [status |-> "ok", final_query |-> [node_type |-> "body", value |-> column],
              final_query_without_extra_columns |-> None]))

\* columns() up to its request.
PrepareColumns(a) ==
    Checked(ReturnTypeError(a.return_data_as, a.output_file,
                            {<<>>, s_dataframe, s_tsv, s_list}, s_tsv),
    [status |-> "ok", final_query |-> None, final_query_without_extra_columns |-> None])

Prepared(a) ==
    CASE a.fn = "fetch_rows"     -> PrepareFetchRows(a)
      [] a.fn = "summary_counts" -> PrepareSummaryCounts(a)
      [] a.fn = "column_values"  -> PrepareColumnValues(a)
      [] a.fn = "columns"        -> PrepareColumns(a)

(***************************************************************************)
(* One call of fetch_rows(), summary_counts(), column_values() or          *)
(* columns(), as a state machine: the arguments, the responses the API     *)
(* will give, and the requests, results and outcome of the call.           *)
(***************************************************************************)
VARIABLES
    args,                \* the arguments of the call
    api,                 \* the API's answer to the 1st, 2nd, ... request
    database,            \* the rows of `table` the API answers all further requests from
    pc,                  \* where the call is
    prepared,            \* the queries built from the arguments
    requests,            \* the requests dispatched so far, in order
    inflight,            \* the ApplyResult: "none", "pending" or "ready"
    result_dataframe,    \* the rows accumulated so far
    incremented_offset,  \* the offset of the next page
    distinct_row_count,  \* the count of the request without extra columns
    outcome              \* what the call returned, once it has

vars == <<args, api, database, pc, prepared, requests, inflight, result_dataframe,
          incremented_offset, distinct_row_count, outcome>>

starting_offset == 0

\* rows_per_page of fetch_rows()
rows_per_page == 500000

\* records_per_page of column_values()
records_per_page == 50000

PageLimit(a) ==
    IF a.fn = "column_values" THEN records_per_page
    ELSE IF a.count_only THEN 1
    ELSE rows_per_page

\* A response of the API that is not an exception: `result`, the rows of the
\* page, `next_url` (TRUE for a URL, FALSE for null) and `total_row_count`.
PagedResponse(result, next_url, total_row_count) ==
    [kind |-> "ok", result |-> result, next_url |-> next_url,
     total_row_count |-> total_row_count]

\* One row of a result: its `<table>_identifier` array, and whether the ID
\* column of a joined table is missing from it.
ResultRow(identifier, join_id_isna) ==
    [identifier |-> identifier, join_id_isna |-> join_id_isna]

\* The rows the API has for one row of `table` when columns of another table
\* are selected: one for each related row of that table, and one without
\* the data of that table when there is none.
JoinedRows(table_row) ==
    IF table_row.joined = 0 THEN <<ResultRow(table_row.identifier, TRUE)>>
    ELSE [j \in 1..table_row.joined |-> ResultRow(table_row.identifier, FALSE)]

\* The rows the API has for one somatic_mutation when the identifier columns
\* of its subject are selected: one for each identifier.
IdentifierRows(table_row) ==
    [j \in 1..Len(table_row.identifier) |-> ResultRow(<<table_row.identifier[j]>>, FALSE)]

\* The whole result of a query of the call, over the rows of `table` that
\* match its filters.
RECURSIVE ResultOf(_, _, _)
ResultOf(table_rows, selects, provenance) ==
    IF table_rows = <<>> THEN <<>>
    ELSE (IF ~selects THEN <<ResultRow(Head(table_rows).identifier, FALSE)>>
          ELSE IF provenance THEN IdentifierRows(Head(table_rows))
          ELSE JoinedRows(Head(table_rows)))
         \o ResultOf(Tail(table_rows), selects, provenance)

\* The page of `limit` rows at `offset` of a result.
PageOf(result, offset, limit) ==
    PagedResponse(SubSeq(result, offset + 1,
                         IF offset + limit < Len(result) THEN offset + limit ELSE Len(result)),
                  offset + limit < Len(result), Len(result))

\* The answer to the k-th request: what the script says, and past the end of
\* the script the page that the request asks for.
ResponseTo(k) ==
    IF k <= Len(api) THEN api[k]
    ELSE PageOf(ResultOf(database, requests[k].query.node_type = "SELECT", args.provenance),
                requests[k].offset, requests[k].limit)

\* pd.json_normalize( paged_response_data_object.result ) for the page the
\* k-th request returned: its rows, each known by its page and position.
PageRows(k) ==
    [i \in 1..Len(ResponseTo(k).result) |->
        [field \in DOMAIN ResponseTo(k).result[i] \cup {"row"} |->
            IF field = "row" THEN <<k, i>> ELSE ResponseTo(k).result[i][field]]]

NotReturned == [kind |-> "running"]

ReturnsNone(message) == [kind |-> "None", error |-> message]

Raises(exception) == [kind |-> "raise", error |-> exception]

\* DataFrame.to_csv( output_file ) or json.dump() to output_file, and the
\* `return` after it: the function returns None.
WritesFile(contents) == [kind |-> "None", error |-> "", file |-> contents]

\* The Python list of one column of the result.
ReturnsList(values) == [kind |-> "list", values |-> values]

(***************************************************************************)
(* The post-processing of the rows fetch_rows() has accumulated.           *)
(***************************************************************************)
s_data_source_suffix == <<"_", "d", "a", "t", "a", "_", "s", "o", "u", "r", "c", "e">>

s_data_source_id_suffix == <<"_", "d", "a", "t", "a", "_", "s", "o", "u", "r", "c", "e", "_", "i", "d">>

\* columns_to_fetch as it stands when the query has been built.
FetchedColumns(table, provenance, source_table_columns_in_order, join_table_id_field, add) ==
    IF UsesExtraColumns(source_table_columns_in_order, join_table_id_field, add)
    THEN ColumnsToFetch(source_table_columns_in_order, join_table_id_field, add)
    ELSE IF table = s_somatic_mutation /\ provenance
    THEN RemoveFirst(source_table_columns_in_order, s_cda_subject_id)
         \o associated_subject_provenance_columns
    ELSE source_table_columns_in_order

\* result_column_data_types[column]
ResultColumnDataType(table, column) ==
    IF column = table \o s_identifier_suffix THEN "array_of_id_dictionaries"
    ELSE IF column \in Range(associated_subject_provenance_columns) THEN "text"
    ELSE columns_by_column(column)[1].data_type

\* The cast of every fetched column fails on a data type the loop does not
\* anticipate.
UnexpectedDataType(table, columns_to_fetch) ==
    \E i \in 1..Len(columns_to_fetch) :
        ResultColumnDataType(table, columns_to_fetch[i])
            \notin {"numeric", "integer", "bigint", "text", "boolean",
                    "array_of_id_dictionaries"}

\* result_dataframe.loc[ ~( result_dataframe[join_table_id_field].isna() ) ]
RECURSIVE WithJoinId(_)
WithJoinId(rows) ==
    IF rows = <<>> THEN <<>>
    ELSE IF Head(rows).join_id_isna THEN WithJoinId(Tail(rows))
    ELSE <<Head(rows)>> \o WithJoinId(Tail(rows))

\* data_source and data_source_id of one identifier record.
DataSourceOf(identifier_record) == identifier_record.system

DataSourceIdOf(identifier_record) ==
    identifier_record.field_name \o <<":">> \o identifier_record.value

\* One copy of result_row for each record of its identifier array.
RECURSIVE CopiesOf(_, _)
CopiesOf(result_row, identifier_array) ==
    IF identifier_array = <<>> THEN <<>>
    ELSE <<[row |-> result_row.row,
            data_source |-> DataSourceOf(Head(identifier_array)),
            data_source_id |-> DataSourceIdOf(Head(identifier_array))]>>
         \o CopiesOf(result_row, Tail(identifier_array))

\* new_result_matrix
RECURSIVE NewResultMatrix(_)
NewResultMatrix(rows) ==
    IF rows = <<>> THEN <<>>
    ELSE CopiesOf(Head(rows), Head(rows).identifier) \o NewResultMatrix(Tail(rows))

\* The rows of a result without provenance, or of somatic_mutation, whose
\* provenance the API has put into columns of the row: one for one.
RECURSIVE RowForRow(_, _)
RowForRow(rows, provenance) ==
    IF rows = <<>> THEN <<>>
    ELSE <<IF provenance
           THEN [row |-> Head(rows).row,
                 data_source |-> DataSourceOf(Head(rows).identifier[1]),
                 data_source_id |-> DataSourceIdOf(Head(rows).identifier[1])]
           ELSE [row |-> Head(rows).row]>>
         \o RowForRow(Tail(rows), provenance)

\* DataFrame.rename( columns={ old: new } ) on the list of column names.
RECURSIVE Renamed(_, _, _)
Renamed(names, old, new) ==
    IF names = <<>> THEN <<>>
    ELSE <<IF Head(names) = old THEN new ELSE Head(names)>> \o Renamed(Tail(names), old, new)

\* The columns of the DataFrame that is returned: the fetched columns, with
\* the provenance columns consolidated.
ResultColumns(table, provenance, columns_to_fetch) ==
    IF ~provenance THEN columns_to_fetch
    ELSE IF table = s_somatic_mutation
    THEN RemoveFirst(Renamed(Renamed(columns_to_fetch, s_subject_identifier_system,
                                     s_subject \o s_data_source_suffix),
                             s_subject_identifier_field_name,
                             s_subject \o s_data_source_id_suffix),
                     s_subject_identifier_value)
    ELSE RemoveFirst(columns_to_fetch, table \o s_identifier_suffix)
         \o <<table \o s_data_source_suffix, table \o s_data_source_id_suffix>>

\* The rows of the DataFrame that is returned.
ResultRows(table, provenance, join_table_id_field, rows) ==
    IF provenance /\ table # s_somatic_mutation THEN NewResultMatrix(rows)
    ELSE IF provenance THEN RowForRow(rows, TRUE)
    ELSE IF join_table_id_field # <<>> THEN RowForRow(WithJoinId(rows), FALSE)
    ELSE RowForRow(rows, FALSE)

\* Everything from the end of paging to the return of the DataFrame.  A
\* result without rows has no columns and is returned as it is.
PostProcessed(a, columns_to_fetch, join_table_id_field, rows) ==
    IF rows = <<>> THEN [kind |-> "data", columns |-> <<>>, rows |-> <<>>]
    ELSE IF UnexpectedDataType(a.table, columns_to_fetch)
    THEN ReturnsNone("Unexpected data type received")
    ELSE [kind |-> "data",
          columns |-> ResultColumns(a.table, a.provenance, columns_to_fetch),
          rows |-> ResultRows(a.table, a.provenance, join_table_id_field, rows)]

\* columns_to_fetch and join_table_id_field of the call, from the columns to
\* add.
PostProcessedWith(a, add, rows) ==
    PostProcessed(a,
                  FetchedColumns(a.table, a.provenance,
                                 SourceTableColumns(a.table, a.provenance),
                                 JoinTableIdField(JoinTables(add)), add),
                  JoinTableIdField(JoinTables(add)), rows)

\* The end of fetch_rows(): the DataFrame is returned, or written to
\* output_file.
AsRequested(return_data_as, result) ==
    IF result.kind = "data" /\ Lower(return_data_as) = s_tsv
    THEN WritesFile([columns |-> result.columns, rows |-> result.rows])
    ELSE result

\* What fetch_rows() returns for the rows it has accumulated.
FetchRowsReturn(a, rows) ==
    AsRequested(a.return_data_as,
                PostProcessedWith(a, IF a.provenance THEN <<>>
                                     ELSE EffectiveAddColumns(a.link_to_table, a.add_columns),
                                  rows))

\* What columns() returns for the rows of its one request.
ColumnsReturn(a, rows) ==
    IF Lower(a.return_data_as) = s_list THEN ReturnsList([i \in 1..Len(rows) |-> rows[i].row])
    ELSE IF Lower(a.return_data_as) = s_tsv THEN WritesFile(rows)
    ELSE [kind |-> "data", rows |-> rows]

\* What summary_counts() returns for the counts of its one request: by
\* default it prints them and returns None.
SummaryCountsReturn(a, rows) ==
    IF Lower(a.return_data_as) = <<>> THEN [kind |-> "None", error |-> "", printed |-> rows]
    ELSE IF Lower(a.return_data_as) = s_json THEN WritesFile(rows)
    ELSE IF Lower(a.return_data_as) = s_dict THEN [kind |-> "dict", rows |-> rows]
    ELSE [kind |-> "data", rows |-> rows]

\* The order of two characters and of two strings in an alphabetical sort.
Alphabet == <<"a", "b", "c", "d">>

CharCode(c) == CHOOSE i \in 1..Len(Alphabet) : Alphabet[i] = c

RECURSIVE StrLess(_, _)
StrLess(a, b) ==
    IF b = <<>> THEN FALSE
    ELSE IF a = <<>> THEN TRUE
    ELSE IF a[1] = b[1] THEN StrLess(Tail(a), Tail(b))
    ELSE CharCode(a[1]) < CharCode(b[1])

\* Does row x come before row y under DataFrame.sort_values() as the four
\* branches on sort_by call it?
Before(sort_by, x, y) ==
    IF sort_by = s_count
    THEN x.count < y.count \/ (x.count = y.count /\ StrLess(x.value, y.value))
    ELSE IF sort_by = s_count \o s_desc_suffix
    THEN x.count > y.count \/ (x.count = y.count /\ StrLess(x.value, y.value))
    ELSE IF sort_by = s_value THEN StrLess(x.value, y.value)
    ELSE StrLess(y.value, x.value)

RECURSIVE InsertSorted(_, _, _)
InsertSorted(sort_by, x, rows) ==
    IF rows = <<>> THEN <<x>>
    ELSE IF Before(sort_by, x, Head(rows)) THEN <<x>> \o rows
    ELSE <<Head(rows)>> \o InsertSorted(sort_by, x, Tail(rows))

\* result_dataframe.sort_values( ... )
RECURSIVE SortValues(_, _)
SortValues(sort_by, rows) ==
    IF rows = <<>> THEN <<>>
    ELSE InsertSorted(sort_by, rows[Len(rows)],
                      SortValues(sort_by, SubSeq(rows, 1, Len(rows) - 1)))

\* The end of column_values() for a result that has rows.
SortedAsRequested(return_data_as, rows) ==
    IF Lower(return_data_as) = s_list THEN ReturnsList([i \in 1..Len(rows) |-> rows[i].value])
    ELSE IF Lower(return_data_as) = s_tsv THEN WritesFile(rows)
    ELSE [kind |-> "data", rows |-> rows]

\* What column_values() returns for the values it has accumulated.  A
\* result without rows is returned as it is, an empty DataFrame.
ColumnValuesReturn(a, rows) ==
    IF Len(rows) = 0 THEN [kind |-> "data", rows |-> rows]
    ELSE SortedAsRequested(a.return_data_as,
                           SortValues(SortBy(a.return_data_as, a.sort_by), rows))

\* The validation and query construction of the call, up to its first
\* request.  fetch_rows() with count_only first counts the rows of `table`
\* alone when columns of another table are selected.
Prepare ==
    /\ pc = "start"
    /\ \E p \in {Prepared(args)} :
           IF p.status = "ok"
           THEN /\ prepared' = p
                /\ pc' = IF /\ args.fn = "fetch_rows"
                            /\ args.count_only
                            /\ p.final_query # p.final_query_without_extra_columns
                         THEN "count_distinct"
                         ELSE "first_page"
                /\ outcome' = outcome
           ELSE /\ prepared' = prepared
                /\ pc' = "done"
                /\ outcome' = IF p.status = "raise" THEN Raises(p.message)
                              ELSE ReturnsNone(p.message)
    /\ UNCHANGED <<args, api, database, requests, inflight, result_dataframe,
                   incremented_offset, distinct_row_count>>

\* RequestAt asking for the first page again on every turn of the paging
\* loop.
RequestAt_without_increment(position) ==
    [endpoint      |-> args.fn,
     query         |-> IF position = "count_distinct"
                       THEN prepared.final_query_without_extra_columns
                       ELSE prepared.final_query,
     offset        |-> starting_offset,
     limit         |-> PageLimit(args),
     include_count |-> IF position = "next_page" /\ args.fn = "fetch_rows" THEN FALSE
                       ELSE IF args.fn = "fetch_rows" THEN args.count_only
                       ELSE TRUE]

\* The request the call issues at its current position.
RequestAt(position) ==
    [endpoint      |-> args.fn,
     query         |-> IF position = "count_distinct"
                       THEN prepared.final_query_without_extra_columns
                       ELSE prepared.final_query,
     offset        |-> IF position = "next_page" THEN incremented_offset ELSE starting_offset,
     limit         |-> PageLimit(args),
     include_count |-> IF position = "next_page" /\ args.fn = "fetch_rows" THEN FALSE
                       ELSE IF args.fn = "fetch_rows" THEN args.count_only
                       ELSE TRUE]

\* query_selector[table]( ..., async_req=True ): the request goes out and an
\* ApplyResult comes back.  summary_counts() on somatic_mutation returns at
\* once, without looking at the result.
Dispatch ==
    /\ pc \in {"count_distinct", "first_page", "next_page"}
    /\ requests' = Append(requests, RequestAt(pc))
    /\ inflight' = "pending"
    /\ IF args.fn = "summary_counts" /\ args.table = s_somatic_mutation
       THEN /\ pc' = "done"
            /\ outcome' = [kind |-> "None", error |-> ""]
       ELSE /\ pc' = CASE pc = "count_distinct" -> "wait_distinct"
                       [] pc = "first_page"     -> "wait_first"
                       [] pc = "next_page"      -> "wait_next"
            /\ outcome' = outcome
    /\ UNCHANGED <<args, api, database, prepared, result_dataframe, incremented_offset,
                   distinct_row_count>>

\* The API finishes the request: ready() becomes True.
Ready ==
    /\ inflight = "pending"
    /\ inflight' = "ready"
    /\ UNCHANGED <<args, api, database, pc, prepared, requests, result_dataframe,
                   incremented_offset, distinct_row_count, outcome>>

\* What the except clauses around get() make of a failed request.  The body
\* of an ApiException is parsed as JSON; a body that is not JSON makes
\* json.loads() raise inside the handler.
FailureOutcome(kind) ==
    CASE kind = "ApiException_json_body" -> ReturnsNone("error message from API")
      [] kind = "ApiException_no_body"   -> ReturnsNone("error message from API")
      [] kind = "ApiException_text_body" -> Raises("json.JSONDecodeError")
      [] kind = "Exception"              -> ReturnsNone("something went wrong when trying to connect")

\* pd.concat of the next page onto the rows so far, which the code does only
\* when neither is empty.
Accumulate(rows, next_result_batch) ==
    IF rows # <<>> /\ next_result_batch # <<>> THEN rows \o next_result_batch ELSE rows

\* get() on a ready result, and everything up to the next request or the
\* return.
Get ==
    /\ pc \in {"wait_distinct", "wait_first", "wait_next"}
    /\ inflight = "ready"
    /\ inflight' = "none"
    /\ LET k == Len(requests)
           r == ResponseTo(k)
       IN  IF r.kind # "ok"
           THEN /\ pc' = "done"
                /\ outcome' = FailureOutcome(r.kind)
                /\ UNCHANGED <<result_dataframe, incremented_offset, distinct_row_count>>
           ELSE IF pc = "wait_distinct"
           THEN /\ pc' = "first_page"
                /\ distinct_row_count' = <<r.total_row_count>>
                /\ UNCHANGED <<result_dataframe, incremented_offset, outcome>>
           ELSE IF args.fn = "fetch_rows" /\ args.count_only
           THEN /\ pc' = "done"
                /\ distinct_row_count' = IF distinct_row_count = <<>>
                                         THEN <<r.total_row_count>>
                                         ELSE distinct_row_count
                /\ outcome' = [kind |-> "counts",
                               distinct_rows |-> distinct_row_count'[1],
                               total_result_rows |-> r.total_row_count]
                /\ UNCHANGED <<result_dataframe, incremented_offset>>
           ELSE IF args.fn \in {"summary_counts", "columns"}
           THEN /\ pc' = "done"
                /\ result_dataframe' = PageRows(k)
                /\ outcome' = IF args.fn = "columns"
                              THEN ColumnsReturn(args, result_dataframe')
                              ELSE SummaryCountsReturn(args, result_dataframe')
                /\ UNCHANGED <<incremented_offset, distinct_row_count>>
           ELSE /\ result_dataframe' = IF pc = "wait_first" THEN PageRows(k)
                                       ELSE Accumulate(result_dataframe, PageRows(k))
                /\ incremented_offset' = IF pc = "wait_first"
                                         THEN starting_offset + PageLimit(args)
                                         ELSE incremented_offset + PageLimit(args)
                /\ IF r.next_url
                   THEN pc' = "next_page" /\ outcome' = outcome
                   ELSE /\ pc' = "done"
                        /\ outcome' = IF args.fn = "fetch_rows"
                                      THEN FetchRowsReturn(args, result_dataframe')
                                      ELSE ColumnValuesReturn(args, result_dataframe')
                /\ UNCHANGED distinct_row_count
    /\ UNCHANGED <<args, api, database, prepared, requests>>

Next == Prepare \/ Dispatch \/ Ready \/ Get

(***************************************************************************)
(* The inputs of the calls that are explored.                              *)
(***************************************************************************)

\* Filter strings are put together from a column text, whitespace, an
\* operator text, whitespace and a value text; the parser sees only the
\* resulting character sequence.
ColumnTexts ==
    { <<"s", "e", "x">>,
     <<"S", "E", "X">>,
     <<"s", "e", "*">>,
     <<"s", "*">>,
     <<"s", "e", "x", "y">>,
     <<"s", "*", "*", "x">>,
     <<"h", "o", "t", "s", "p", "o", "t">>,
     <<"y", "e", "a", "r", "_", "o", "f", "_", "b", "i", "r", "t", "h">>,
     <<"b", "y", "t", "e", "_", "s", "i", "z", "e">>,
     <<"t", "_", "d", "e", "p", "t", "h">>,
     <<"f", "i", "l", "e", "_", "c", "r", "e", "a", "t", "e", "d">> }

SpaceTexts ==
    { <<>>,
     <<" ">>,
     <<" ", " ">>,
     <<"\n">> }

OperatorTexts ==
    { <<"=">>,
     <<"=", "=">>,
     <<"!", "=">>,
     <<"<">>,
     <<"<", "=">>,
     <<">">>,
     <<">", "=">>,
     <<"=", ">">>,
     <<"L", "I", "K", "E">> }

ValueTexts ==
    { <<"F">>,
     <<"F", "*">>,
     <<"*", "F">>,
     <<"*", "*", "F", "*", "*">>,
     <<"a", "*", "b">>,
     <<"*", "a", "*", "b">>,
     <<"*">>,
     <<"N", "U", "L", "L">>,
     <<"n", "u", "l", "l">>,
     <<"'", "N", "U", "L", "L", "'">>,
     <<"'", "F", "'">>,
     <<"\"", "*", "F", "\"">>,
     <<"t", "r", "u", "e">>,
     <<"T">>,
     <<"m", "a", "y", "b", "e">>,
     <<"1", "2">>,
     <<"-", "1", ".", "5">>,
     <<"1", ".">>,
     <<"a", " ", "b">>,
     <<"F", "\n">>,
     <<"1", "2", " ">>,
     <<>> }

\* Every column, operator and value text with single spaces, and every
\* spacing of a few of them.
SpacingColumnTexts == { <<"s", "e", "x">> }

SpacingOperatorTexts == { <<"=">>, <<"<">> }

SpacingValueTexts == { <<"F">>, <<"a", " ", "b">>, <<"F", "\n">>, <<"*", "F">>, <<>> }

FilterStrings ==
    {c \o <<" ">> \o o \o <<" ">> \o v :
        c \in ColumnTexts, o \in OperatorTexts, v \in ValueTexts}
    \cup
    {c \o w1 \o o \o w2 \o v :
        c \in SpacingColumnTexts, w1 \in SpaceTexts, o \in SpacingOperatorTexts,
        w2 \in SpaceTexts, v \in SpacingValueTexts}

\* The filter strings of the calls that combine several filters, and their
\* data sources: one that is spelled loosely and one that is not allowed.
f_sex_like == <<"s", "e", "x", " ", "=", " ", "F", "*">>

f_depth_ge == <<"t", "_", "d", "e", "p", "t", "h", " ", ">", "=", " ", "5">>

f_sex_null == <<"s", "e", "x", " ", "!", "=", " ", "N", "U", "L", "L">>

MatchAllFilters == {f_sex_like, f_depth_ge}

MatchAnyFilters == {f_sex_null, f_depth_ge}

d_XYZ == <<"X", "Y", "Z">>

d_p_dc == <<"p", " ", "d", "c">>

GroupSources == {d_p_dc, d_XYZ}

\* The bounds on the lengths of the argument lists and of the API's script.
MaxMatchAll == 3

MaxMatchAny == 2

MaxDataSource == 1

MaxPages == 3

\* All sequences over S of length at most n.
SeqsUpTo(S, n) == UNION {[1..k -> S] : k \in 0..n}

DefaultArgs ==
    [fn |-> "fetch_rows", table |-> s_subject, match_all |-> <<>>, match_any |-> <<>>,
     data_source |-> <<>>, add_columns |-> <<>>, link_to_table |-> <<>>,
     provenance |-> FALSE, count_only |-> FALSE, column |-> <<>>, force |-> FALSE,
     return_data_as |-> <<>>, output_file |-> <<>>, sort_by |-> <<>>]

\* The entries of the `<table>_identifier` array of a row: the upstream data
\* sources the row derives from.
identifier_GDC ==
    [system |-> <<"G", "D", "C">>, field_name |-> <<"c", "a", "s", "e">>, value |-> <<"1">>]

identifier_PDC ==
    [system |-> <<"P", "D", "C">>, field_name |-> <<"c", "a", "s", "e">>, value |-> <<"2">>]

\* A page of n rows from one data source, the n rows being all the API says
\* there are.
Page(n, more) ==
    PagedResponse([i \in 1..n |-> ResultRow(<<identifier_GDC>>, FALSE)], more, n)

Failed(kind) == [kind |-> kind]

\* A row of the unique_values endpoint: a value of the column and the number
\* of rows that have it.
ValueRow(value, count) == [value |-> value, count |-> count]

\* The values of a column are distinct: the rows of the k-th response of a
\* script carry a value of length k.
WithValues(script) ==
    [k \in DOMAIN script |->
        IF script[k].kind # "ok" THEN script[k]
        ELSE [script[k] EXCEPT !.result = [i \in DOMAIN @ |-> ValueRow([j \in 1..k |-> "a"], 1)]]]

FailureKinds ==
    {"ApiException_json_body", "ApiException_no_body", "ApiException_text_body", "Exception"}

PageSizes == {0, 1}

Responses ==
    {Page(n, more) : n \in PageSizes, more \in BOOLEAN} \cup {Failed(k) : k \in FailureKinds}

\* A script of the API that every call can run to its end.
OnePage == <<Page(1, FALSE)>>

InitRun ==
    /\ pc = "start"
    /\ prepared = None
    /\ requests = <<>>
    /\ inflight = "none"
    /\ result_dataframe = <<>>
    /\ incremented_offset = starting_offset
    /\ distinct_row_count = <<>>
    /\ outcome = NotReturned

\* Calls of fetch_rows() and summary_counts() with up to MaxMatchAll,
\* MaxMatchAny and MaxDataSource entries in the three filter groups.
Init ==
    /\ \E fn \in {"fetch_rows", "summary_counts"},
          table \in {s_subject, s_somatic_mutation},
          all \in SeqsUpTo(MatchAllFilters, MaxMatchAll),
          any \in SeqsUpTo(MatchAnyFilters, MaxMatchAny),
          ds \in SeqsUpTo(GroupSources, MaxDataSource) :
            args = [DefaultArgs EXCEPT !.fn = fn, !.table = table, !.match_all = all,
                                       !.match_any = any, !.data_source = ds]
    /\ api = OnePage
    /\ database = <<>>
    /\ InitRun

Spec == Init /\ [][Next]_vars

\* Calls with one filter string, in match_all or in match_any.
InitParse ==
    /\ \E fn \in {"fetch_rows", "summary_counts"}, item \in FilterStrings, group \in {"all", "any"} :
            args = [DefaultArgs EXCEPT !.fn = fn,
                                       !.match_all = IF group = "all" THEN <<item>> ELSE <<>>,
                                       !.match_any = IF group = "any" THEN <<item>> ELSE <<>>]
    /\ api = OnePage
    /\ database = <<>>
    /\ InitRun

SpecParse == InitParse /\ [][Next]_vars

\* Calls of all four functions against every script of up to MaxPages
\* responses.
InitPaging ==
    /\ \E fn \in {"fetch_rows", "summary_counts", "column_values", "columns"},
          count_only \in BOOLEAN,
          add \in {<<>>, <<s_label>>},
          column \in {s_sex, s_label},
          force \in BOOLEAN :
            /\ fn # "fetch_rows" => ~count_only /\ add = <<>>
            /\ fn # "column_values" => column = s_sex /\ ~force
            /\ args = [DefaultArgs EXCEPT !.fn = fn, !.count_only = count_only,
                                          !.add_columns = add, !.column = column,
                                          !.force = force]
    /\ \E script \in SeqsUpTo(Responses, MaxPages) \ {<<>>} :
            api = IF args.fn = "column_values" THEN WithValues(script) ELSE script
    /\ database = <<>>
    /\ InitRun

SpecPaging == InitPaging /\ [][Next]_vars

\* A row of `table` that matches the filters of the call: its identifier
\* array and the number of rows of another table that are related to it.
TableRow(identifier, joined) == [identifier |-> identifier, joined |-> joined]

JoinedCounts == {0, 2}

\* A second identifier of the same data source as identifier_GDC, under
\* another field of that source.
identifier_GDC_submitter_id ==
    [system |-> <<"G", "D", "C">>, field_name |-> <<"s", "u", "b">>, value |-> <<"3">>]

IdentifierArrays ==
    {<<identifier_GDC>>, <<identifier_GDC, identifier_PDC>>,
     <<identifier_GDC, identifier_GDC_submitter_id>>}

TableRows ==
    {TableRow(identifier, joined) : identifier \in IdentifierArrays, joined \in JoinedCounts}

\* The bound on the number of rows of `table` that match.
MaxRows == 2

\* Calls of fetch_rows() with every combination of its join directives and
\* of count_only, against an API that answers from up to MaxRows rows.
\* add_columns lists beyond one column of a second table: columns of two
\* tables, a column of `table` itself, a column of somatic_mutation, and
\* entries that are not the name of any column.
s_Xlabel == <<"X">> \o s_label

s_lab_el == <<"l", "a", "b", " ", "e", "l">>

s_Label == <<"L", "a", "b", "e", "l">>

MoreAddColumns ==
    {<<s_label, s_sex>>, <<s_label, s_byte_size>>, <<s_sex>>, <<s_hotspot>>,
     <<s_Xlabel>>, <<s_lab_el>>, <<s_Label>>, <<s_subject_associated_project>>}

InitRows ==
    /\ \E table \in {s_subject, s_somatic_mutation},
          add \in {<<>>, <<s_label>>} \cup MoreAddColumns,
          link \in {<<>>, s_file, s_subject},
          provenance \in BOOLEAN,
          count_only \in BOOLEAN :
            /\ add \in MoreAddColumns => link = <<>> /\ ~provenance
            /\ args = [DefaultArgs EXCEPT !.table = table, !.add_columns = add,
                                          !.link_to_table = link, !.provenance = provenance,
                                          !.count_only = count_only]
    /\ api = <<>>
    /\ database \in SeqsUpTo(TableRows, MaxRows)
    /\ InitRun

SpecRows == InitRows /\ [][Next]_vars

\* Calls of column_values() with column arguments that name a flagged
\* column, in other letter case or with whitespace as well, a column that is
\* not flagged, a pattern and no column, with and without force, against
\* results of one and two pages.
s_LABEL == <<"L", "A", "B", "E", "L">>

s_label_star == s_label \o <<"*">>

s_nosuch == <<"n", "o", "s", "u", "c", "h">>

ColumnArguments ==
    {s_label, s_LABEL, s_lab_el, s_file_id, s_byte_size, s_sex, s_label_star, s_nosuch}

\* Results of the unique_values endpoint: none, three values of which two
\* have the same count, three values over two pages, and a failure.
value_a == <<"a">>

value_b == <<"b">>

value_c == <<"c">>

ValuesPage(rows, more) == PagedResponse(rows, more, Len(rows))

ValuesScripts ==
    {<<ValuesPage(<<>>, FALSE)>>,
     <<ValuesPage(<<ValueRow(value_b, 1), ValueRow(value_c, 2), ValueRow(value_a, 2)>>, FALSE)>>,
     <<ValuesPage(<<ValueRow(value_b, 2)>>, TRUE),
       ValuesPage(<<ValueRow(value_a, 1), ValueRow(value_c, 2)>>, FALSE)>>,
     <<Failed("Exception")>>}

s_out == <<"o", "u", "t">>

SortByArguments ==
    {<<>>, s_count, s_count \o s_asc_suffix, s_count \o s_desc_suffix,
     s_value, s_value \o s_asc_suffix, s_value \o s_desc_suffix,
     <<"C", "o", "u", "n", "t">>, s_label}

ReturnArguments == {<<>>, s_dataframe, s_list, s_tsv, <<"T", "S", "V">>, s_json}

OutputFiles == {<<>>, s_out, <<" ">>}

InitValues ==
    /\ \E column \in ColumnArguments, force \in BOOLEAN, sort_by \in SortByArguments,
          return_data_as \in ReturnArguments, output_file \in OutputFiles :
            /\ column # s_sex \/ force =>
                  sort_by = <<>> /\ return_data_as = <<>> /\ output_file = <<>>
            /\ output_file = <<" ">> => sort_by = <<>>
            /\ args = [DefaultArgs EXCEPT !.fn = "column_values", !.column = column,
                                          !.force = force, !.sort_by = sort_by,
                                          !.return_data_as = return_data_as,
                                          !.output_file = output_file]
    /\ api \in ValuesScripts
    /\ database = <<>>
    /\ InitRun

SpecValues == InitValues /\ [][Next]_vars

\* Calls of all four functions with every pairing of return_data_as and
\* output_file, against results without rows, of one page and of two pages
\* and against a failure.
RowScripts ==
    {<<Page(0, FALSE)>>, <<Page(1, FALSE)>>, <<Page(1, TRUE), Page(1, FALSE)>>,
     <<Failed("Exception")>>}

InitReturn ==
    /\ \E fn \in {"fetch_rows", "summary_counts", "column_values", "columns"},
          return_data_as \in ReturnArguments \cup {s_dict, s_dataframe_list},
          output_file \in OutputFiles,
          count_only \in BOOLEAN :
            /\ fn # "fetch_rows" => ~count_only
            /\ args = [DefaultArgs EXCEPT !.fn = fn, !.column = s_sex,
                                          !.return_data_as = return_data_as,
                                          !.output_file = output_file,
                                          !.count_only = count_only]
    /\ api \in IF args.fn = "column_values" THEN ValuesScripts ELSE RowScripts
    /\ database = <<>>
    /\ InitRun

SpecReturn == InitReturn /\ [][Next]_vars

\* Calls of fetch_rows() against every script of up to MaxPages pages or
\* failures, under the scheduling the claim on termination assumes: the
\* code goes on from each of its steps, and every pending result becomes
\* ready.
FetchResponses == {Page(n, more) : n \in PageSizes, more \in BOOLEAN} \cup {Failed("Exception")}

InitFetch ==
    /\ \E count_only \in BOOLEAN, add \in {<<>>, <<s_label>>} :
            args = [DefaultArgs EXCEPT !.count_only = count_only, !.add_columns = add]
    /\ api \in SeqsUpTo(FetchResponses, MaxPages) \ {<<>>}
    /\ database = <<>>
    /\ InitRun

\* The steps of Prepare and of Get, told by what they do to pc and to the
\* pending result: Prepare is the one step that leaves "start", Get the one
\* that takes a ready result.
Prepares == pc = "start" /\ pc' \in {"count_distinct", "first_page", "done"}

GetReturns == inflight = "ready" /\ inflight' = "none"

SpecFetchFair ==
    /\ InitFetch
    /\ [][Next]_vars
    /\ WF_pc(Prepares)
    /\ WF_vars(Dispatch)
    /\ WF_vars(Ready)
    /\ WF_inflight(GetReturns)

d_GDC == <<"G", "D", "C">>

d_iCdc_newline == <<"i", "C", "d", "c", "\n">>

d_space == <<" ">>

\* What callers pass as one data source: names in either case and with
\* whitespace in them, a name that is no data source, text of whitespace
\* alone and the empty string.
DataSourceArguments == {d_GDC, d_p_dc, d_iCdc_newline, d_XYZ, d_space, <<>>}

\* The bound on the length of the data_source list where it is the one
\* argument that varies.
MaxSources == 3

\* Calls of fetch_rows() and summary_counts() with up to MaxSources data
\* sources, alone or beside one match_all filter.
InitSources ==
    /\ \E fn \in {"fetch_rows", "summary_counts"},
          table \in {s_subject, s_somatic_mutation},
          all \in {<<>>, <<f_depth_ge>>},
          ds \in SeqsUpTo(DataSourceArguments, MaxSources) :
            args = [DefaultArgs EXCEPT !.fn = fn, !.table = table, !.match_all = all,
                                       !.data_source = ds]
    /\ api = OnePage
    /\ database = <<>>
    /\ InitRun

SpecSources == InitSources /\ [][Next]_vars

(***************************************************************************)
(* Properties.                                                             *)
(***************************************************************************)

IsFilterCall == args.fn \in {"fetch_rows", "summary_counts"}

\* The call passed every check and built its queries.
Built == IsFilterCall /\ prepared # None

\* The filter tree inside a query that was sent: what the SELECT of extra
\* columns, if there is one, is applied to.
FilterTree(query) == IF query.node_type = "SELECT" THEN query.r ELSE query

\* The Query objects of the filter strings of a group.
RECURSIVE ParsedQueries(_)
ParsedQueries(items) ==
    IF items = <<>> THEN <<>>
    ELSE <<ParseFilter(Head(items)).query>> \o ParsedQueries(Tail(items))

\* (((f1 C f2) C f3) ... C fn), defined from the last operand inwards.
RECURSIVE LeftChain(_, _)
LeftChain(leaves, connective) ==
    IF Len(leaves) = 1 THEN leaves[1]
    ELSE [node_type |-> connective,
          l |-> LeftChain(SubSeq(leaves, 1, Len(leaves) - 1), connective),
          r |-> leaves[Len(leaves)]]

\* C1: the combined node of a filter group of n >= 1 filters is the parsed
\* filter itself when n = 1 and otherwise the left-leaning chain of the parsed
\* filters in input order, joined by AND for match_all and by OR for match_any.
C1_LeftLeaningChains ==
    Built =>
        /\ Len(args.match_all) >= 1 =>
              prepared.combined_match_all_query = LeftChain(ParsedQueries(args.match_all), "AND")
        /\ Len(args.match_any) >= 1 =>
              prepared.combined_match_any_query = LeftChain(ParsedQueries(args.match_any), "OR")

\* A call that folded three match_all filters and two match_any filters.
C1_Witness ==
    /\ Built
    /\ Len(args.match_all) >= 3
    /\ Len(args.match_any) >= 2
    /\ prepared.combined_match_all_query.l.node_type = "AND"
    /\ prepared.combined_match_any_query.node_type = "OR"

\* The comparisons of a tree of AND and OR nodes, left to right.
RECURSIVE LeafSeq(_)
LeafSeq(tree) ==
    IF tree.node_type \in {"AND", "OR"} THEN LeafSeq(tree.l) \o LeafSeq(tree.r)
    ELSE <<tree>>

CountIn(leaves, x) == Cardinality({i \in DOMAIN leaves : leaves[i] = x})

SameBag(s, t) == \A x \in Range(s) \cup Range(t) : CountIn(s, x) = CountIn(t, x)

\* tree is built from AND nodes alone over exactly the group trees
\* groups[i], i \in S, each used once.
RECURSIVE IsAndOf(_, _, _)
IsAndOf(tree, groups, S) ==
    \/ \E i \in S : S = {i} /\ tree = groups[i]
    \/ /\ Cardinality(S) > 1
       /\ tree.node_type = "AND"
       /\ \E S1 \in SUBSET S :
            /\ S1 # {}
            /\ S1 # S
            /\ IsAndOf(tree.l, groups, S1)
            /\ IsAndOf(tree.r, groups, S \ S1)

NonEmptyGroups ==
    {i \in 1..3 : <<args.match_all, args.match_any, args.data_source>>[i] # <<>>}

\* C2: with at least one non-empty group, the filter tree of every query sent
\* is the AND of exactly the trees of the non-empty groups, each once, and its
\* comparisons are the supplied filters and data sources, each once.
C2_AndOfNonEmptyGroups ==
    \A k \in DOMAIN requests :
        IsFilterCall /\ NonEmptyGroups # {} =>
            /\ IsAndOf(FilterTree(requests[k].query),
                       <<prepared.combined_match_all_query,
                         prepared.combined_match_any_query,
                         prepared.combined_data_source_query>>,
                       NonEmptyGroups)
            /\ SameBag(LeafSeq(FilterTree(requests[k].query)),
                       ParsedQueries(args.match_all) \o ParsedQueries(args.match_any)
                       \o DataSourceQueries(args.fn, args.table,
                                            NormalizeDataSource(args.data_source)))

\* A query was sent for a call with all three groups non-empty.
C2_Witness ==
    /\ IsFilterCall
    /\ requests # <<>>
    /\ NonEmptyGroups = {1, 2, 3}
    /\ Len(args.match_all) >= 2

\* C3: with all three groups empty the filter sent is `<table>_id IS NOT
\* NULL`, and for somatic_mutation `(hotspot IS NULL) OR (hotspot IS NOT
\* NULL)`, with column leaves on the left and an unquoted NULL on the right.
C3_AlwaysTrueDefault ==
    \A k \in DOMAIN requests :
        IsFilterCall /\ NonEmptyGroups = {} =>
            FilterTree(requests[k].query) =
                IF args.table = <<"s", "o", "m", "a", "t", "i", "c", "_",
                                  "m", "u", "t", "a", "t", "i", "o", "n">>
                THEN [node_type |-> "OR",
                      l |-> [node_type |-> "IS",
                             l |-> [node_type |-> "column",
                                    value |-> <<"h", "o", "t", "s", "p", "o", "t">>],
                             r |-> [node_type |-> "unquoted", value |-> <<"N", "U", "L", "L">>]],
                      r |-> [node_type |-> "IS NOT",
                             l |-> [node_type |-> "column",
                                    value |-> <<"h", "o", "t", "s", "p", "o", "t">>],
                             r |-> [node_type |-> "unquoted", value |-> <<"N", "U", "L", "L">>]]]
                ELSE [node_type |-> "IS NOT",
                      l |-> [node_type |-> "column", value |-> args.table \o <<"_", "i", "d">>],
                      r |-> [node_type |-> "unquoted", value |-> <<"N", "U", "L", "L">>]]

\* A query was sent for a call on somatic_mutation without any filter.
C3_Witness ==
    /\ IsFilterCall
    /\ requests # <<>>
    /\ NonEmptyGroups = {}
    /\ args.table = s_somatic_mutation

\* The same arguments for the other of the two functions.
OtherFunction ==
    [args EXCEPT !.fn = IF args.fn = "fetch_rows" THEN "summary_counts" ELSE "fetch_rows"]

\* C4: summary_counts and fetch_rows reject the same inputs, and for an input
\* both accept the filter tree either sends is, node for node, the one the
\* other sends.
C4_SameQueryBuilder ==
    IsFilterCall /\ pc # "start" =>
        \A other \in {Prepared(OtherFunction)} :
            /\ (prepared = None) <=> (other.status # "ok")
            /\ \A k \in DOMAIN requests :
                  other.status = "ok" =>
                      FilterTree(requests[k].query) = FilterTree(other.final_query)

\* The one filter string of a call that has one.
TheItem == IF args.match_all # <<>> THEN args.match_all[1] ELSE args.match_any[1]

ColumnNamesKnown == {AllColumns[i].column : i \in DOMAIN AllColumns}

\* C5: a filter is accepted only if its lower-cased COLUMN_NAME is exactly
\* the name of a column of the metadata, so every column leaf of a query sent
\* names an existing column; any other COLUMN_NAME ends the call with an
\* error and None.
C5_ColumnExists ==
    IsFilterCall /\ pc # "start" =>
        /\ prepared # None => ColumnNameOf(TheItem) \in ColumnNamesKnown
        /\ \A k \in DOMAIN requests :
              \A leaf \in Range(LeafSeq(FilterTree(requests[k].query))) :
                  leaf.l.value \in ColumnNamesKnown
        /\ ColumnNameOf(TheItem) \notin ColumnNamesKnown /\ pc = "done" => outcome.kind = "None"

\* The filter string has the three fields and its column text selects one
\* column of the metadata.
Resolves(item) ==
    /\ ConformsToFormat(item)
    /\ ~PatternError(MatchPattern(ColumnNameOf(item)))
    /\ Len(columns_by_column(ColumnNameOf(item))) = 1

TypeOf(item) == columns_by_column(ColumnNameOf(item))[1].data_type

OrderingOperators == {<<"<">>, <<"<", "=">>, <<">">>, <<">", "=">>}

EqualityOperators == {<<"=">>, <<"=", "=">>, <<"!", "=">>}

Rejected == prepared = None /\ requests = <<>> /\ pc = "done" /\ outcome.kind = "None"

\* C6: a filter is accepted only with one of the operators = == != < <= >
\* >=, the ordering operators only on bigint, integer and numeric columns,
\* and == as =; any other operator text, and an ordering operator on a text
\* or boolean column, ends the call with an error and None before any query
\* is sent.
C6_TypeDirectedOperators ==
    IsFilterCall /\ pc # "start" /\ Resolves(TheItem) =>
        LET op == OperatorOf(TheItem)
            type == TypeOf(TheItem)
        IN  /\ prepared # None =>
                  /\ op \in OrderingOperators \cup EqualityOperators
                  /\ op \in OrderingOperators => type \in {"bigint", "integer", "numeric"}
                  /\ type \in {"text", "boolean"} => op \in EqualityOperators
                  /\ op = <<"=", "=">> =>
                        FilterTree(prepared.final_query).node_type \in {"=", "LIKE", "IS"}
            /\ op \notin OrderingOperators \cup EqualityOperators => Rejected
            /\ op \in OrderingOperators /\ type \in {"text", "boolean"} => Rejected

\* A call with an ordering operator on a text column was rejected.
C6_Witness ==
    /\ IsFilterCall
    /\ Resolves(TheItem)
    /\ OperatorOf(TheItem) = <<"<", "=">>
    /\ TypeOf(TheItem) = "text"
    /\ Rejected

LeadingStars(v) ==
    CHOOSE n \in 0..Len(v) :
        /\ \A i \in 1..n : v[i] = "*"
        /\ n = Len(v) \/ v[n + 1] # "*"

TrailingStars(v) ==
    CHOOSE n \in 0..Len(v) :
        /\ \A i \in (Len(v) - n + 1)..Len(v) : v[i] = "*"
        /\ n = Len(v) \/ v[Len(v) - n] # "*"

\* The value with its leading run of * and then its trailing run of *
\* removed.
StarCore(v) ==
    LET rest == SubSeq(v, LeadingStars(v) + 1, Len(v))
    IN  SubSeq(rest, 1, Len(rest) - TrailingStars(rest))

HasEndStars(v) == v # <<>> /\ (v[1] = "*" \/ v[Len(v)] = "*")

WithPercents(v) ==
    LET rest == SubSeq(v, LeadingStars(v) + 1, Len(v))
    IN  (IF LeadingStars(v) > 0 THEN <<"%">> ELSE <<>>)
        \o StarCore(v)
        \o (IF TrailingStars(rest) > 0 THEN <<"%">> ELSE <<>>)

\* The call filters a text column with = or != on a value that is not NULL.
TextFilter ==
    /\ IsFilterCall
    /\ pc # "start"
    /\ Resolves(TheItem)
    /\ TypeOf(TheItem) = "text"
    /\ OperatorOf(TheItem) \in EqualityOperators
    /\ Lower(StripValue(TheItem, "text")) # <<"n", "u", "l", "l">>

\* C7: on a text column, a value with * at its ends is sent with each end
\* run of * as one % under LIKE (for =) or NOT LIKE (for !=); a value with a
\* * left in the middle is rejected with an error and None; a value without *
\* is sent as it is under its own operator; and no value of a query sent
\* contains *.
C7_Wildcards ==
    /\ TextFilter =>
          LET v == StripValue(TheItem, "text")
              negated == OperatorOf(TheItem) = <<"!", "=">>
              leaf == FilterTree(prepared.final_query)
          IN  IF "*" \in Range(StarCore(v)) THEN Rejected
              ELSE /\ prepared # None
                   /\ leaf.r.value = WithPercents(v)
                   /\ leaf.node_type = IF HasEndStars(v)
                                       THEN (IF negated THEN "NOT LIKE" ELSE "LIKE")
                                       ELSE (IF negated THEN "!=" ELSE "=")
    /\ IsFilterCall =>
          \A k \in DOMAIN requests :
              \A leaf \in Range(LeafSeq(FilterTree(requests[k].query))) :
                  "*" \notin Range(leaf.r.value)

\* A query was sent for a != filter whose value has * at both ends.
C7_Witness ==
    /\ TextFilter
    /\ requests # <<>>
    /\ OperatorOf(TheItem) = <<"!", "=">>
    /\ LeadingStars(StripValue(TheItem, "text")) > 1
    /\ StripValue(TheItem, "text")[Len(StripValue(TheItem, "text"))] = "*"
    /\ FilterTree(requests[1].query).node_type = "NOT LIKE"

\* C8: for a column of any data type, `COLUMN = NULL` is sent as an IS node
\* and `COLUMN != NULL` as an IS NOT node, each with the unquoted literal
\* NULL on the right, and NULL with an ordering operator ends the call with
\* an error and None.
C8_NullOnEveryType ==
    /\ IsFilterCall
    /\ pc # "start"
    /\ Resolves(TheItem)
    /\ ValueOf(TheItem) = <<"N", "U", "L", "L">>
    /\ OperatorOf(TheItem) \in OrderingOperators \cup EqualityOperators
    => IF OperatorOf(TheItem) \in OrderingOperators THEN Rejected
       ELSE /\ prepared # None
            /\ FilterTree(prepared.final_query).node_type =
                  IF OperatorOf(TheItem) = <<"!", "=">> THEN "IS NOT" ELSE "IS"
            /\ FilterTree(prepared.final_query).r =
                  [node_type |-> "unquoted", value |-> <<"N", "U", "L", "L">>]

\* The three fields of a filter string: the first run of non-whitespace, the
\* run after the first whitespace run, and all that follows the second
\* whitespace run.
FirstField(item) == SubSeq(item, 1, ColEnd(item) - 1)

SecondField(item) ==
    LET b == Ws1End(item, ColEnd(item))
    IN  SubSeq(item, b, OpEnd(item, b) - 1)

ThirdField(item) ==
    SubSeq(item, Ws2End(item, OpEnd(item, Ws1End(item, ColEnd(item)))), Len(item))

HasThreeFields(item) ==
    LET a == ColEnd(item)
        b == Ws1End(item, a)
        c == OpEnd(item, b)
    IN  /\ FirstField(item) # <<>>
        /\ b > a
        /\ SecondField(item) # <<>>
        /\ Ws2End(item, c) > c
        /\ ThirdField(item) # <<>>

\* C9: COLUMN_NAME, OP and VALUE are the three fields that the first two
\* whitespace runs of the filter string separate, and a string without three
\* such fields is rejected with the 'does not conform' error and None.
C9_SplitOnWhitespaceRuns ==
    IsFilterCall /\ pc # "start" =>
        IF HasThreeFields(TheItem)
        THEN /\ outcome # ReturnsNone("does not conform to 'COLUMN_NAME OP VALUE' format")
             /\ ColumnNameOf(TheItem) = Lower(FirstField(TheItem))
             /\ OperatorOf(TheItem) = SecondField(TheItem)
             /\ ValueOf(TheItem) = ThirdField(TheItem)
        ELSE /\ outcome = ReturnsNone("does not conform to 'COLUMN_NAME OP VALUE' format")
             /\ requests = <<>>

\* C10: a request that fails ends the call with an error and None, without
\* rows and without a further request, and no two requests of a call have
\* the same offset.
C10_NoRetry ==
    /\ \A k \in DOMAIN requests :
          ResponseTo(k).kind # "ok" =>
              /\ k = Len(requests)
              /\ pc = "done" => outcome.kind = "None"
    /\ \A i, j \in DOMAIN requests : i # j => requests[i].offset # requests[j].offset

\* The rows of the pages that requests 1..k returned, in page order.
RECURSIVE RowsOfPages(_)
RowsOfPages(k) == IF k = 0 THEN <<>> ELSE RowsOfPages(k - 1) \o PageRows(k)

\* A call of fetch_rows() without count_only, or of column_values(), all of
\* whose requests succeeded, has returned its rows.
ReturnedPagedRows ==
    /\ pc = "done"
    /\ outcome.kind = "data"
    /\ args.fn \in {"fetch_rows", "column_values"}

\* C11: when every request succeeded, the rows accumulated by fetch_rows
\* (count_only False) and by column_values are the rows of every page the API
\* returned, in page order, none dropped or duplicated, empty pages included.
C11_TransparentPaging ==
    ReturnedPagedRows => result_dataframe = RowsOfPages(Len(requests))

\* The rows that one request for the whole result of the call's final query
\* brings.
WholeResult ==
    [i \in 1..Len(ResultOf(database, prepared.final_query.node_type = "SELECT", args.provenance)) |->
        [row |-> <<1, i>>,
         identifier |-> ResultOf(database, prepared.final_query.node_type = "SELECT",
                                 args.provenance)[i].identifier,
         join_id_isna |-> ResultOf(database, prepared.final_query.node_type = "SELECT",
                                   args.provenance)[i].join_id_isna]]

\* What the call returns when count_only is False instead.
WithoutCountOnly == FetchRowsReturn(args, WholeResult)

NoJoinDirective ==
    args.add_columns = <<>> /\ args.link_to_table = <<>> /\ ~args.provenance

\* C12: the counts fetch_rows returns with count_only=True are the number of
\* rows of `table` that match and the number of rows the same call returns
\* with count_only=False, and the two are equal when add_columns,
\* link_to_table and provenance are all unused.
C12_CountsOfRows ==
    pc = "done" /\ outcome.kind = "counts" =>
        /\ outcome.distinct_rows = Len(database)
        /\ WithoutCountOnly.kind = "data"
        /\ outcome.total_result_rows = Len(WithoutCountOnly.rows)
        /\ NoJoinDirective => outcome.distinct_rows = outcome.total_result_rows

\* The join directives the arguments ask for.
DirectivesUsed ==
    {d \in {"link_to_table", "add_columns", "provenance"} :
        \/ d = "link_to_table" /\ args.link_to_table # <<>>
        \/ d = "add_columns" /\ args.add_columns # <<>>
        \/ d = "provenance" /\ args.provenance}

\* C13: a fetch_rows call that asks for more than one join directive, or
\* whose link_to_table is its table, prints an error and returns None
\* without sending a query, and every call that sends a query has at most one
\* directive in effect.
C13_ExclusiveDirectives ==
    args.fn = "fetch_rows" /\ pc # "start" =>
        /\ Cardinality(DirectivesUsed) > 1 \/ args.link_to_table = args.table =>
              /\ pc = "done"
              /\ outcome.kind = "None"
              /\ outcome.error # ""
              /\ requests = <<>>
        /\ requests # <<>> => Cardinality(DirectivesUsed) <= 1

\* A call with provenance=True and add_columns was turned away.
C13_Witness ==
    /\ args.fn = "fetch_rows"
    /\ args.provenance
    /\ args.add_columns # <<>>
    /\ args.link_to_table = <<>>
    /\ outcome = ReturnsNone("if provenance is True, neither link_to_table nor add_columns can be used")

\* The searchable columns an add_columns entry names: the entry is read in
\* lower case and without the characters no column name contains.
ColumnsNamed(entry) == {r \in Range(AllColumns) : r.column = KeepIdentChars(Lower(entry))}

\* The call uses add_columns and no other join directive.
AddsColumns ==
    /\ args.fn = "fetch_rows"
    /\ args.table \in tables
    /\ args.add_columns # <<>>
    /\ args.link_to_table = <<>>
    /\ ~args.provenance
    /\ pc # "start"

AllEntriesResolve ==
    \A i \in 1..Len(args.add_columns) : Cardinality(ColumnsNamed(args.add_columns[i])) = 1

TablesNamed == {r.table : r \in UNION {ColumnsNamed(args.add_columns[i]) : i \in 1..Len(args.add_columns)}}

\* Is `name` one of the comma-separated items of a SELECTVALUES string?
IsSelected(value, name) ==
    \E i \in 1..Len(value) :
        /\ i + Len(name) - 1 <= Len(value)
        /\ SubSeq(value, i, i + Len(name) - 1) = name
        /\ (i = 1 \/ value[i - 1] = " ")
        /\ (i + Len(name) > Len(value) \/ value[i + Len(name)] = ",")

RejectsUnresolvedEntries == AddsColumns /\ ~AllEntriesResolve => Rejected /\ outcome.error # ""

RejectsColumnsOfTwoTables == AddsColumns /\ Cardinality(TablesNamed) > 1 => Rejected /\ outcome.error # ""

SelectsJoinTableId ==
    AddsColumns /\ prepared # None =>
        \A t \in JoinTables(CleanAddColumns(args.add_columns)) :
            t # s_somatic_mutation =>
                /\ prepared.final_query.node_type = "SELECT"
                /\ IsSelected(prepared.final_query.l.value, t \o s_id_suffix)
                /\ \A k \in 1..Len(requests) :
                       \/ requests[k].query = prepared.final_query
                       \/ requests[k].query = prepared.final_query_without_extra_columns
                /\ pc = "done" => requests[Len(requests)].query = prepared.final_query

\* C14: fetch_rows turns away (error, None, no request) an add_columns list
\* whose columns belong to more than one table and one with an entry that does
\* not name exactly one searchable column; the query an accepted call fetches
\* its rows with selects the ID column of the joined table unless that table
\* is somatic_mutation.
C14_ExtraColumnsFromOneTable ==
    /\ RejectsUnresolvedEntries
    /\ RejectsColumnsOfTwoTables
    /\ SelectsJoinTableId

\* fetch_rows() with provenance=True on a table other than somatic_mutation
\* has returned rows.
ReturnedProvenance ==
    /\ args.fn = "fetch_rows"
    /\ args.provenance
    /\ args.table # s_somatic_mutation
    /\ pc = "done"
    /\ outcome.kind = "data"

\* The upstream data sources a fetched row derives from.
DataSourcesOf(fetched_row) ==
    {fetched_row.identifier[j].system : j \in 1..Len(fetched_row.identifier)}

\* The copies of a fetched row in the output that carry one data source.
CopiesFrom(fetched_row, data_source) ==
    {k \in 1..Len(outcome.rows) :
        outcome.rows[k].row = fetched_row.row /\ outcome.rows[k].data_source = data_source}

UpstreamDataSources ==
    UNION {{identifier_array[j].system : j \in 1..Len(identifier_array)} : identifier_array \in IdentifierArrays}

OncePerDataSource ==
    ReturnedProvenance =>
        \A i \in 1..Len(result_dataframe) : \A data_source \in UpstreamDataSources :
            Cardinality(CopiesFrom(result_dataframe[i], data_source))
                = IF data_source \in DataSourcesOf(result_dataframe[i]) THEN 1 ELSE 0

CarriesDataSourceId ==
    ReturnedProvenance =>
        \A k \in 1..Len(outcome.rows) : \E i \in 1..Len(result_dataframe) :
            \E j \in 1..Len(result_dataframe[i].identifier) :
                /\ outcome.rows[k].row = result_dataframe[i].row
                /\ outcome.rows[k].data_source = result_dataframe[i].identifier[j].system
                /\ outcome.rows[k].data_source_id
                       = result_dataframe[i].identifier[j].field_name \o <<":">>
                           \o result_dataframe[i].identifier[j].value

ProvenanceColumns ==
    ReturnedProvenance =>
        /\ args.table \o s_identifier_suffix \notin Range(outcome.columns)
        /\ outcome.rows # <<>> =>
              /\ args.table \o s_data_source_suffix \in Range(outcome.columns)
              /\ args.table \o s_data_source_id_suffix \in Range(outcome.columns)

\* C15: with provenance=True on a table other than somatic_mutation, every
\* fetched row is in the output once for each upstream data source it derives
\* from, each copy with that source in <table>_data_source and field_name:value
\* in <table>_data_source_id, and the output has no <table>_identifier column.
C15_OncePerDataSource ==
    /\ OncePerDataSource
    /\ CarriesDataSourceId
    /\ ProvenanceColumns

\* The columns flagged as having very many values.
FlaggedColumns ==
    {s_file_id, s_byte_size, s_checksum, s_drs_uri, s_file_integer_id_alias, s_label}

\* The `column` argument is the name of a flagged column, whitespace and
\* letter case aside.
DesignatesFlaggedColumn ==
    args.fn = "column_values" /\ Lower(RemoveSpace(args.column)) \in FlaggedColumns

\* C16: column_values() called for a flagged column without force=True sends
\* no request and returns None with a warning; with force=True it sends the
\* unique_values request for that column.
C16_BlocksFlaggedColumns ==
    DesignatesFlaggedColumn /\ pc # "start" =>
        IF args.force
        THEN /\ prepared # None
             /\ pc \notin {"first_page"} =>
                   /\ requests # <<>>
                   /\ requests[1].endpoint = "column_values"
                   /\ requests[1].query.value = Lower(RemoveSpace(args.column))
        ELSE /\ pc = "done"
             /\ requests = <<>>
             /\ outcome = ReturnsNone("high-overhead column, use force=True")

\* A flagged column written in capitals was blocked.
C16_Witness ==
    /\ args.column = s_LABEL
    /\ ~args.force
    /\ pc = "done"
    /\ requests = <<>>
    /\ outcome.kind = "None"

\* The call has gone through its requests and returns what it makes of the
\* rows it has accumulated.
Delivered == pc = "done" /\ requests # <<>> /\ ResponseTo(Len(requests)).kind = "ok"

\* The same call with another sort_by.
SortedBy(sort_by) == [args EXCEPT !.sort_by = sort_by]

\* The call does what the same call with `sort_by` does: it is turned away
\* with the same message, or returns the same for the same values.
SameAsSortedBy(sort_by) ==
    /\ Prepared(args).status = Prepared(SortedBy(sort_by)).status
    /\ Prepared(args).status # "ok" => Prepared(args) = Prepared(SortedBy(sort_by))
    /\ Delivered => outcome = ColumnValuesReturn(SortedBy(sort_by), result_dataframe)

DefaultSortByCount ==
    /\ args.fn = "column_values"
    /\ args.sort_by = <<>>
    /\ Lower(args.return_data_as) \in {<<>>, s_dataframe, s_tsv}
    => SameAsSortedBy(s_count)

DefaultSortByValue ==
    args.fn = "column_values" /\ args.sort_by = <<>> /\ Lower(args.return_data_as) = s_list
        => SameAsSortedBy(s_value)

AscIsDefault ==
    \A X \in {s_count, s_value} :
        args.fn = "column_values" /\ args.sort_by = X \o s_asc_suffix => SameAsSortedBy(X)

ListRejectsCount ==
    /\ args.fn = "column_values"
    /\ Lower(args.return_data_as) = s_list
    /\ Strip(args.output_file) = <<>>
    /\ Lower(args.sort_by) \in {s_count, s_count \o s_asc_suffix, s_count \o s_desc_suffix}
    /\ Lower(RemoveSpace(args.column)) \notin FlaggedColumns
    /\ pc # "start"
    => pc = "done" /\ requests = <<>> /\ outcome.kind = "None" /\ outcome.error # ""

\* C17: column_values() without sort_by orders its result as with
\* sort_by='count' for the return types dataframe and tsv and as with
\* sort_by='value' for list; 'X:asc' does what 'X' does; return_data_as='list'
\* with a sort by count is turned away.
C17_SortByDefaults ==
    /\ DefaultSortByCount
    /\ DefaultSortByValue
    /\ AscIsDefault
    /\ ListRejectsCount

\* The return type of the function that writes a file.
FileReturnType == IF args.fn = "summary_counts" THEN s_json ELSE s_tsv

FileRequested == Lower(args.return_data_as) = FileReturnType

TurnedAway == pc = "done" /\ requests = <<>> /\ outcome.kind = "None" /\ outcome.error # ""

FileWritten == pc = "done" /\ "file" \in DOMAIN outcome

RejectsFileTypeWithoutFile ==
    FileRequested /\ Strip(args.output_file) = <<>> /\ pc # "start" => TurnedAway

RejectsFileWithoutFileType ==
    ~FileRequested /\ Strip(args.output_file) # <<>> /\ pc # "start" => TurnedAway

WritesOnlyOnRequest == FileWritten => FileRequested /\ Strip(args.output_file) # <<>>

ReturnsNoneWithFile == FileRequested /\ pc = "done" => outcome.kind = "None"

\* C18: each of the four functions turns away its file return type without
\* an output_file and an output_file with any other return type; a file is
\* written only when the file return type was requested, and a call that
\* requested it returns None.
C18_FileAndReturnTypeAgree ==
    /\ RejectsFileTypeWithoutFile
    /\ RejectsFileWithoutFileType
    /\ WritesOnlyOnRequest
    /\ ReturnsNoneWithFile

\* Without count_only the k-th request asks for the rows_per_page rows at
\* offset (k - 1) * rows_per_page, and there is a k+1-st request only after a
\* k-th response with a next_url.
PagesInOrder ==
    args.fn = "fetch_rows" /\ ~args.count_only =>
        /\ \A k \in 1..Len(requests) :
              /\ requests[k].offset = (k - 1) * rows_per_page
              /\ requests[k].limit = rows_per_page
        /\ \A k \in 1..(Len(requests) - 1) :
              ResponseTo(k).kind = "ok" /\ ResponseTo(k).next_url

\* With count_only there are at most two requests, each for one row, and the
\* paging loop is not entered.
CountOnlyRequests ==
    args.fn = "fetch_rows" /\ args.count_only =>
        /\ Len(requests) <= 2
        /\ \A k \in 1..Len(requests) : requests[k].limit = 1 /\ requests[k].offset = 0
        /\ pc \notin {"next_page", "wait_next"}

\* A response with a next_url is followed by a further request.
NextUrlIsFollowed ==
    \A k \in 1..(MaxPages + 1) :
        (/\ ~args.count_only
         /\ Len(requests) = k
         /\ inflight = "none"
         /\ pc # "start"
         /\ ResponseTo(k).kind = "ok"
         /\ ResponseTo(k).next_url) ~> (Len(requests) > k)

\* C19: without count_only the requests of one fetch_rows call are at
\* offsets 0, L, 2L, ... for L = rows_per_page, a further request follows if
\* and only if the latest response has a next_url, and the call ends; with
\* count_only there are at most two requests, each with limit 1, and no
\* paging.
C19_PagingProgress ==
    /\ [](PagesInOrder /\ CountOnlyRequests)
    /\ NextUrlIsFollowed
    /\ <>(pc = "done")

\* Three pages were fetched, one after the other.
C19_Witness ==
    /\ ~args.count_only
    /\ pc = "done"
    /\ Len(requests) = 3
    /\ requests[3].offset = 2 * rows_per_page
    /\ outcome.kind = "data"

\* A request goes out only when no other is outstanding.
DispatchesOneAtATime == [][Len(requests') > Len(requests) => inflight = "none"]_vars

\* The function returns only when the result of every request it has sent has
\* been taken.
ReturnsWithNothingOutstanding == pc = "done" => inflight = "none"

\* C20: within one call of fetch_rows, column_values, columns or
\* summary_counts at most one request is outstanding at any time: every
\* request that was sent is waited for and its result or exception taken
\* before the next request goes out and before the function returns.
C20_OneOutstandingRequest == DispatchesOneAtATime /\ []ReturnsWithNothingOutstanding

\* A data source as the call is to read it: without its whitespace and in
\* lower case.
NormalisedSource(item) == RemoveSpace(Lower(item))

NormalisedSources == [i \in DOMAIN args.data_source |-> NormalisedSource(args.data_source[i])]

DataSourceNames == {s_gdc, s_pdc, s_idc, s_cds, s_icdc}

AllSourcesNamed == \A i \in DOMAIN NormalisedSources : NormalisedSources[i] \in DataSourceNames

\* A data source that is none of the five names ends the call with an error
\* and None, and nothing is sent.
RejectsUnknownSources ==
    IsFilterCall /\ pc # "start" =>
        /\ prepared # None => AllSourcesNamed
        /\ ~AllSourcesNamed /\ pc = "done" => Rejected /\ outcome.error # ""

\* `<table>_from_<s> = true`, the right operand unquoted.
SourceLeaf(table, s) ==
    [node_type |-> "=",
     l |-> [node_type |-> "column", value |-> table \o <<"_", "f", "r", "o", "m", "_">> \o s],
     r |-> [node_type |-> "unquoted", value |-> <<"t", "r", "u", "e">>]]

\* The leaves of the data_source tree are those of the accepted values, in
\* input order.
SourceLeavesInOrder ==
    Built /\ args.data_source # <<>> =>
        LeafSeq(prepared.combined_data_source_query) =
            [i \in DOMAIN NormalisedSources |-> SourceLeaf(args.table, NormalisedSources[i])]

\* The data_source tree is the left-leaning AND chain of its leaves.
SourcesFoldedLeft ==
    Built /\ args.data_source # <<>> =>
        prepared.combined_data_source_query =
            LeftChain(LeafSeq(prepared.combined_data_source_query), "AND")

\* Every query sent requires the whole data_source tree: it is the filter
\* tree, or one side of the AND node at its root.
SourcesRequired ==
    Built /\ args.data_source # <<>> =>
        \A k \in DOMAIN requests :
            \/ FilterTree(requests[k].query) = prepared.combined_data_source_query
            \/ /\ FilterTree(requests[k].query).node_type = "AND"
               /\ prepared.combined_data_source_query \in
                      {FilterTree(requests[k].query).l, FilterTree(requests[k].query).r}

\* C21: data_source values are read without their whitespace and without
\* regard to case and must then be one of gdc, pdc, idc, cds, icdc, any other
\* value ending the call with an error and None; each accepted value s
\* becomes the leaf `<table>_from_<s> = true` with an unquoted right operand,
\* and several values are folded in input order into a left-leaning AND chain
\* that every query sent requires.
C21_DataSourceTree ==
    /\ RejectsUnknownSources
    /\ SourceLeavesInOrder
    /\ SourcesFoldedLeft
    /\ SourcesRequired

AnticipatedDataTypes == {"bigint", "boolean", "integer", "numeric", "text"}

\* The one filter of the call names one column with a supported operator,
\* and the declared data type of the column is none the parser anticipates.
UnanticipatedTypeFilter ==
    /\ IsFilterCall
    /\ pc # "start"
    /\ Resolves(TheItem)
    /\ OperatorOf(TheItem) \in OrderingOperators \cup EqualityOperators
    /\ TypeOf(TheItem) \notin AnticipatedDataTypes

\* No row or counts query is sent for such a filter.
SendsNothingForUnanticipatedType == UnanticipatedTypeFilter => prepared = None /\ requests = <<>>

\* The call ends by returning None, not by an exception.
ReturnsNoneForUnanticipatedType ==
    UnanticipatedTypeFilter /\ pc = "done" => outcome.kind = "None"

\* What it prints is the error that names the data type.
PrintsUnanticipatedType ==
    UnanticipatedTypeFilter /\ pc = "done" => outcome.error = "unanticipated target_data_type"

\* C22: when the column named in a match_all or match_any filter has a
\* declared data type outside bigint, boolean, integer, numeric and text,
\* fetch_rows and summary_counts print the "unanticipated target_data_type"
\* error and return None, without raising an exception and without sending a
\* row or counts query.
C22_UnanticipatedDataType ==
    /\ SendsNothingForUnanticipatedType
    /\ ReturnsNoneForUnanticipatedType
    /\ PrintsUnanticipatedType

\* The VALUE of the filter is wrapped in a pair of single or double quotes.
IsQuoted(v) == Len(v) >= 2 /\ v[1] \in {"'", "\""} /\ v[Len(v)] = v[1]

BetweenQuotes(v) == SubSeq(v, 2, Len(v) - 1)

\* The call filters a text column with = or != on a quoted value.
QuotedTextFilter ==
    /\ IsFilterCall
    /\ pc # "start"
    /\ Resolves(TheItem)
    /\ TypeOf(TheItem) = "text"
    /\ OperatorOf(TheItem) \in EqualityOperators
    /\ IsQuoted(ValueOf(TheItem))

\* A quoted value is compared as the text between its quotes, a * run at an
\* end of it read as a wildcard.
ComparesQuotedText ==
    QuotedTextFilter /\ "*" \notin Range(StarCore(BetweenQuotes(ValueOf(TheItem)))) =>
        /\ prepared # None
        /\ FilterTree(prepared.final_query).node_type \in {"=", "!=", "LIKE", "NOT LIKE"}
        /\ FilterTree(prepared.final_query).r =
              [node_type |-> "quoted", value |-> WithPercents(BetweenQuotes(ValueOf(TheItem)))]

\* No query sent for a quoted value tests for NULL.
NeverNullTestForQuoted ==
    QuotedTextFilter =>
        \A k \in DOMAIN requests :
            FilterTree(requests[k].query).node_type \notin {"IS", "IS NOT"}

\* C23: quotes around a VALUE only delimit it: for a text column, a filter
\* whose VALUE is wrapped in single or double quotes yields a comparison
\* (=, !=, LIKE or NOT LIKE) against a quoted string literal equal to the text
\* between the quotes, for every quoted text, the four letters NULL in any
\* case included, and never an IS or IS NOT NULL test.
C23_QuotesOnlyDelimit == ComparesQuotedText /\ NeverNullTestForQuoted

====
